---- MODULE Spec2Model ----
(***************************************************************************)
(* Batch scoring pipeline of the media-scoring application:                *)
(*   - analyzeWithGemini  (src/services/geminiService.ts)                  *)
(*   - handleExcelFile, handleWordFile, handleReset and the React state    *)
(*     they write                                                          *)
(*     (src/unnamed/part_000, the App component).                          *)
(*                                                                         *)
(* Conventions.                                                            *)
(*  - A JavaScript string is a sequence of symbols (TLA+ strings); a       *)
(*    symbol stands for an indivisible run of characters, so              *)
(*    String.includes(sym) is membership and startsWith is a prefix test.  *)
(*  - The module is ASCII only; the Chinese literals of the source are     *)
(*    transliterated:  "AI_FAIL: " = 'AI分析失败: ',  "PENDING" = '待评估',  *)
(*    "UNKNOWN" = '未知',  "NO_TITLE" = '无标题',                           *)
(*    "EXCEL_ERR: " = 'Excel 处理错误: ', "AI_EMPTY" = 'AI 返回了空响应',   *)
(*    "DOC_TOO_SHORT" = '文档内容过少。',                                   *)
(*    "WORD_ERR" = '分析 Word 文档时出错',                                   *)
(*    row fields zhengwen = 正文, biaoti = 标题, meitimingcheng = 媒体名称, *)
(*    meiti = 媒体, liulanliang = 浏览量, dianzanliang = 点赞量,           *)
(*    zhuanfaliang = 转发量, pinglunliang = 评论量; record fields          *)
(*    xiangmuzongfen = 项目总分, zhenxuqiu = 真需求, shengliang = 声量,    *)
(*    huokexiaoneng = 获客效能, hexinxinxipipei = 核心信息匹配,            *)
(*    shouzhongjingzhundu = 受众精准度, meitifenji = 媒体分级,             *)
(*    chuanbozhiliang = 传播质量, pingjia = 评价.                          *)
(*  - One action is one macrotask of the event loop: a handler or the      *)
(*    continuation of an await runs until the next await on a timer or on  *)
(*    the network.  Awaiting an already rejected promise is a microtask    *)
(*    and does not end the step.                                           *)
(***************************************************************************)
EXTENDS Integers, Sequences, FiniteSets, TLC

\* ------------------------------------------------------------------ bounds
MaxBatches == 2
MaxRows == 2
MaxTotalRows == 201
MaxTop == 11
MaxBest == 3
MaxTable == 3
MaxViews == 2
MaxNear == 60

Batches == 1..MaxBatches

\* --------------------------------------------------------- program constants
InitialRetries == 3
InitialBackoffMs == 2000
TitleLen == 20
FloorScore == 1
TopCount == 10
PacingMs == 800

\* ------------------------------------------------------- JavaScript values
Undef == [t |-> "undef", v |-> <<>>]
Str(s) == [t |-> "str", v |-> s]
Num(s) == [t |-> "num", v |-> s]

\* ToBoolean: undefined, "", 0 and NaN are falsy
Truthy(x) ==
  CASE x.t = "undef" -> FALSE
    [] x.t = "str" -> x.v # <<>>
    [] x.t = "num" -> x.v \notin {<<"0">>, <<"NaN">>}

\* a || b
Or(a, b) == IF Truthy(a) THEN a ELSE b

Min(a, b) == IF a < b THEN a ELSE b

\* the element of a one-element set: The({F(y) : y \in {e}}) is F(e) with e
\* worked out once
The(S) == CHOOSE x \in S : TRUE

\* s.substring(0, n) of a string value
Substring0(s, n) == Str(SubSeq(s.v, 1, Min(n, Len(s.v))))

\* msg.includes(sym)
Includes(msg, sym) == \E k \in 1..Len(msg) : msg[k] = sym

\* url.startsWith("http")
StartsWithHttp(s) == Len(s) >= 1 /\ s[1] = "http"

\* ------------------------------------------------------------- input rows
EmptyRow ==
  [zhengwen |-> Undef, Content |-> Undef, biaoti |-> Undef, Title |-> Undef,
   meitimingcheng |-> Undef, meiti |-> Undef, URL |-> Undef,
   liulanliang |-> Undef, PV |-> Undef,
   dianzanliang |-> Undef, zhuanfaliang |-> Undef, pinglunliang |-> Undef]

\* 1990 views and 2 likes: log10(1990 + 2 * 5 + 10) * 1.5 rounds to 5.0
RowFull ==
  [EmptyRow EXCEPT !.zhengwen = Str(<<"body">>), !.biaoti = Str(<<"headline">>),
                   !.meitimingcheng = Str(<<"daily">>),
                   !.liulanliang = Num(<<"1", "9", "9", "0">>),
                   !.dianzanliang = Num(<<"2">>)]
RowUrlOnly == [EmptyRow EXCEPT !.URL = Str(<<"http", "://a.example/x">>)]
RowNumBody == [EmptyRow EXCEPT !.zhengwen = Num(<<"5">>)]
RowNumBodyTitled ==
  [EmptyRow EXCEPT !.zhengwen = Num(<<"5">>), !.biaoti = Str(<<"headline">>)]

AllRows == {RowFull, EmptyRow, RowUrlOnly, RowNumBody, RowNumBodyTitled}
FewRows == {RowFull, RowNumBody}

\* the body/title columns and the media columns hold nothing
NoBodyNoTitle(row) ==
  /\ ~Truthy(row.zhengwen) /\ ~Truthy(row.Content)
  /\ ~Truthy(row.biaoti) /\ ~Truthy(row.Title)
NoMedia(row) == ~Truthy(row.meitimingcheng) /\ ~Truthy(row.meiti)

RECURSIVE SeqsUpTo(_, _)
SeqsUpTo(S, n) ==
  IF n = 0 THEN {<<>>}
  ELSE LET shorter == SeqsUpTo(S, n - 1)
       IN shorter \cup {Append(s, x) : s \in {t \in shorter : Len(t) = n - 1}, x \in S}

\* an uploaded file: one the FileReader cannot read (reader.onerror, which the
\* code does not set, fires instead of reader.onload), one the row extractor
\* rejects, or a sheet of rows
UnreadableFile == [readable |-> FALSE, ok |-> FALSE, rows |-> <<>>]
BadFile == [readable |-> TRUE, ok |-> FALSE, rows |-> <<>>]
Sheet(rows) == [readable |-> TRUE, ok |-> TRUE, rows |-> rows]
AllFiles == {UnreadableFile, BadFile} \cup {Sheet(r) : r \in SeqsUpTo(AllRows, MaxRows)}
FewFiles == {UnreadableFile, BadFile} \cup {Sheet(r) : r \in SeqsUpTo(FewRows, MaxRows)}

\* ---------------------------------------------------------- error messages
MsgXlsx == <<"File is not a spreadsheet">>
MsgNotAFunction == <<"substring is not a function">>
MsgNullProperty == <<"Cannot read properties of null">>
MsgApiKey == <<"API_KEY missing">>
MsgEmpty == <<"AI_EMPTY">>
Msg429 == <<"got status: ", "429", " Too Many Requests">>
MsgExhausted == <<"RESOURCE_EXHAUSTED", ": quota exceeded">>
MsgAuth == <<"API key not valid">>
MsgSyntax == <<"Unexpected token < in JSON at position ", "0">>
MsgTooShort == <<"DOC_TOO_SHORT">>
MsgWordFallback == <<"WORD_ERR">>
MsgRead == <<"The requested file could not be read">>
MsgDocx == <<"Can't find end of central directory">>
\* new Error("重试耗尽"), line 75
MsgSpent == <<"RETRIES_SPENT">>
MsgSyntax429 == <<"Unexpected end of JSON input at position ", "429">>

\* --------------------------------------------- AI results and call outcomes
AIResult(km, acq, aud, comment) ==
  [isNull |-> FALSE, km_score |-> km, acquisition_score |-> acq,
   audience_precision_score |-> aud, comment |-> comment, missing |-> {}]
\* the value JSON.parse gives for the text "null"
JsNull == [isNull |-> TRUE, km_score |-> 0, acquisition_score |-> 0,
           audience_precision_score |-> 0, comment |-> <<>>, missing |-> {}]
NoValue == JsNull

GoodResult == AIResult(8, 6, 7, <<"on message">>)

\* JSON.parse(text) as AIAnalysisResult, line 62, checks no field: the value
\* for the text {"km_score": 9}, where missing names the absent properties
ScoreFields == {"km_score", "acquisition_score", "audience_precision_score"}
PartialResult ==
  [AIResult(9, 0, 0, <<>>) EXCEPT
     !.missing = {"acquisition_score", "audience_precision_score", "comment"}]

\* What one generateContent call can come back with.  cause is what really
\* went wrong ("none": nothing), msg the message of the error.
Rejected(cause, msg) == [k |-> "reject", cause |-> cause, msg |-> msg, val |-> NoValue]
OutEmpty == [k |-> "empty", cause |-> "empty", msg |-> <<>>, val |-> NoValue]
OutBadJson(msg) == [k |-> "badjson", cause |-> "parse", msg |-> msg, val |-> NoValue]
OutJson(val) == [k |-> "json", cause |-> "none", msg |-> <<>>, val |-> val]

AllOutcomes ==
  {Rejected("rate", Msg429), Rejected("rate", MsgExhausted), Rejected("auth", MsgAuth),
   OutEmpty, OutBadJson(MsgSyntax), OutBadJson(MsgSyntax429),
   OutJson(GoodResult), OutJson(JsNull)}
FewOutcomes == {Rejected("rate", Msg429), Rejected("auth", MsgAuth), OutJson(GoodResult)}

\* process.env.API_KEY
ApiKeys == {Str(<<"k-123">>), Undef, Str(<<>>), Str(<<"undefined">>)}

\* ------------------------------------------------------------------- state
VARIABLES
  isProcessing,   \* useState(false)
  progress,       \* useState(0)
  errorLog,       \* useState(""), a string
  batchResults,   \* useState(null): Null or Published(list)
  wordResult,     \* useState(null): NoWord until a document analysis publishes
  apiKey,         \* process.env.API_KEY
  batch,          \* one invocation of handleExcelFile per element of Batches
  tiers,          \* useState({tier1: "", tier2: "", tier3: ""})
  sortConfig,     \* useState(null): NoSort or SortOn(key, direction)
  calc,           \* one application of a scoring function: its inputs and result
  settings,       \* audienceMode, projectKeyMessage and projectDesc, line 22 to 24
  doc,            \* the invocation of handleWordFile
  pTotal, pDone, pValue, pPrev   \* a run of the progress formula alone (SpecProgress)

vars == <<isProcessing, progress, errorLog, batchResults, wordResult, apiKey,
          batch, tiers, sortConfig, calc, settings, doc, pTotal, pDone, pValue, pPrev>>

\* what the handlers of the batch never assign
aux == <<tiers, sortConfig, calc, settings, doc, pTotal, pDone, pValue, pPrev>>

\* line 25 to 29 and line 48
DefaultTiers == [tier1 |-> <<>>, tier2 |-> <<>>, tier3 |-> <<>>]
\* the first text area after the user typed the name of a media
DailyTiers == [tier1 |-> <<"daily">>, tier2 |-> <<>>, tier3 |-> <<>>]
NoSort == [set |-> FALSE, key |-> "", direction |-> ""]
SortOn(key, direction) == [set |-> TRUE, key |-> key, direction |-> direction]
NoCalc == [fn |-> "none"]

\* line 22 to 24: the three settings every AI call is given
Settings(mode, keyMessage, desc) ==
  [audienceMode |-> mode, projectKeyMessage |-> keyMessage, projectDesc |-> desc]
DefaultSettings == Settings("GENERAL", <<>>, <<>>)
\* what the three inputs (line 365, 367 and 372) can be set to
SettingsChoices ==
  {Settings(mode, keyMessage, <<>>) :
     mode \in {"GENERAL", "HCP"}, keyMessage \in {<<>>, <<"screening">>}}

Null == [null |-> TRUE, list |-> <<>>]
Published(list) == [null |-> FALSE, list |-> list]

NoRet == [k |-> "none", msg |-> <<>>, val |-> NoValue]
Returned(val) == [k |-> "returned", msg |-> <<>>, val |-> val]
Threw(msg) == [k |-> "threw", msg |-> msg, val |-> NoValue]

\* The locals of one handleExcelFile invocation and of the analyzeWithGemini
\* call it is in.  config is what the closure of the render that took the
\* upload holds of the settings.  calls, waits, attempts, ret, failed, fetched,
\* paced, sent and cancelAt record what happened; the code does not read them.
IdleBatch ==
  [pc |-> "idle", file |-> BadFile, i |-> 0, results |-> <<>>, content |-> Undef,
   retries |-> 0, backoffMs |-> 0,
   calls |-> 0, waits |-> <<>>, attempts |-> <<>>, ret |-> NoRet,
   failed |-> {}, fetched |-> {}, paced |-> <<>>, cancelAt |-> -1,
   config |-> DefaultSettings, sent |-> {}]

\* wordResult: null, or { ...aiRes, textLen } of line 128
NoWord == [null |-> TRUE, res |-> NoValue, textLen |-> 0]
WordResult(aiRes, textLen) == [null |-> FALSE, res |-> aiRes, textLen |-> textLen]

\* an uploaded document: one file.arrayBuffer() cannot read, one the text
\* extractor rejects, or a document with its raw text
UnreadableDoc == [readable |-> FALSE, docx |-> FALSE, text |-> <<>>]
BadDoc == [readable |-> TRUE, docx |-> FALSE, text |-> <<>>]
Document(text) == [readable |-> TRUE, docx |-> TRUE, text |-> text]

\* The locals of the handleWordFile invocation and of the analyzeWithGemini
\* call it is in; calls, waits and attempts record what happened.
IdleDoc ==
  [pc |-> "idle", file |-> BadDoc, retries |-> 0, backoffMs |-> 0,
   calls |-> 0, waits |-> <<>>, attempts |-> <<>>, config |-> DefaultSettings]

Running(l) == l.pc \in {"reading", "fetching", "pacing", "calling", "backoff"}

\* ------------------------------------- getMediaTierScore, lines 99 to 107
\* Text here is a sequence of one-character strings; "FWCOMMA" stands for the
\* full-width comma U+FF0C.
LowerChar(ch) ==
  CASE ch = "A" -> "a" [] ch = "B" -> "b" [] ch = "C" -> "c" [] ch = "K" -> "k"
    [] OTHER -> ch

\* String.prototype.toLowerCase
ToLowerCase(s) == [k \in 1..Len(s) |-> LowerChar(s[k])]

IsSpace(ch) == ch = " "

\* String.prototype.trim
RECURSIVE TrimStart(_)
TrimStart(s) == IF s # <<>> /\ IsSpace(Head(s)) THEN TrimStart(Tail(s)) ELSE s
RECURSIVE TrimEnd(_)
TrimEnd(s) ==
  IF s # <<>> /\ IsSpace(s[Len(s)]) THEN TrimEnd(SubSeq(s, 1, Len(s) - 1)) ELSE s
Trim(s) == TrimEnd(TrimStart(s))

\* the separators of /[,，]/
IsSeparator(ch) == ch \in {",", "FWCOMMA"}

\* String.prototype.split on the separators: "" splits into one empty entry
RECURSIVE SplitFrom(_, _, _)
SplitFrom(s, k, cur) ==
  IF k > Len(s) THEN <<cur>>
  ELSE IF IsSeparator(s[k]) THEN <<cur>> \o SplitFrom(s, k + 1, <<>>)
  ELSE SplitFrom(s, k + 1, Append(cur, s[k]))
Split(s) == SplitFrom(s, 1, <<>>)

\* String.prototype.includes
StrIncludes(hay, needle) ==
  \E k \in 0..(Len(hay) - Len(needle)) : SubSeq(hay, k + 1, k + Len(needle)) = needle

NonEmpty(x) == x # <<>>

\* parse, line 102
parse_KeepEmpty(t) ==
  LET parts == Split(t)
  IN [k \in 1..Len(parts) |-> ToLowerCase(Trim(parts[k]))]
parse(t) ==
  LET parts == Split(t)
  IN SelectSeq([k \in 1..Len(parts) |-> ToLowerCase(Trim(parts[k]))], NonEmpty)

\* parse(list).some(m => mName.includes(m))
SomeIncluded(mName, list) ==
  \E names \in {parse(list)} : \E k \in 1..Len(names) : StrIncludes(mName, names[k])

\* String(mediaName)
ToText(x) == x.v

getMediaTierScore_LowestFirst(mediaName) ==
  IF ~Truthy(mediaName) THEN 3
  ELSE LET mName == Trim(ToLowerCase(ToText(mediaName)))
       IN IF SomeIncluded(mName, tiers.tier3) THEN 5
          ELSE IF SomeIncluded(mName, tiers.tier2) THEN 8
          ELSE IF SomeIncluded(mName, tiers.tier1) THEN 10
          ELSE 3
getMediaTierScore(mediaName) ==
  IF ~Truthy(mediaName) THEN 3
  ELSE LET mName == Trim(ToLowerCase(ToText(mediaName)))
       IN IF SomeIncluded(mName, tiers.tier1) THEN 10
          ELSE IF SomeIncluded(mName, tiers.tier2) THEN 8
          ELSE IF SomeIncluded(mName, tiers.tier3) THEN 5
          ELSE 3

\* ---------------------------------- calculateVolumeQuality, lines 83 to 97
\* A number is a whole part and a fraction in ten-thousandths, [w, f] with
\* f in 0..9999; NaN is apart.  The texts a cell or a counter holds here carry
\* at most four decimals, so nothing is lost.
NaN == [nan |-> TRUE, w |-> 0, f |-> 0]
Dec(w, f) == [nan |-> FALSE, w |-> w, f |-> f]

DecAdd(a, b) == Dec(a.w + b.w + ((a.f + b.f) \div 10000), (a.f + b.f) % 10000)
DecTimes(k, a) == Dec(k * a.w + ((k * a.f) \div 10000), (k * a.f) % 10000)
DecLeq(a, b) == a.w < b.w \/ (a.w = b.w /\ a.f <= b.f)

IsDigit(ch) == ch \in {"0", "1", "2", "3", "4", "5", "6", "7", "8", "9"}
DigitVal(ch) ==
  CASE ch = "0" -> 0 [] ch = "1" -> 1 [] ch = "2" -> 2 [] ch = "3" -> 3 [] ch = "4" -> 4
    [] ch = "5" -> 5 [] ch = "6" -> 6 [] ch = "7" -> 7 [] ch = "8" -> 8 [] ch = "9" -> 9

\* the longest run of digits the text starts with
RECURSIVE TakeDigits(_)
TakeDigits(s) ==
  IF s # <<>> /\ IsDigit(Head(s)) THEN <<Head(s)>> \o TakeDigits(Tail(s)) ELSE <<>>

RECURSIVE ValueOf(_)
ValueOf(digits) ==
  IF digits = <<>> THEN 0
  ELSE 10 * ValueOf(SubSeq(digits, 1, Len(digits) - 1)) + DigitVal(digits[Len(digits)])

\* the digits after the point, as ten-thousandths
FractionOf(digits) ==
  ValueOf([k \in 1..4 |-> IF k <= Len(digits) THEN digits[k] ELSE "0"])

\* parseFloat of an unsigned text: the longest prefix that is a decimal
\* literal, NaN when there is none
parseFloat(s) ==
  The({LET rest == SubSeq(text, Len(ip) + 1, Len(text))
           fp == IF rest # <<>> /\ Head(rest) = "." THEN TakeDigits(Tail(rest)) ELSE <<>>
       IN IF ip = <<>> /\ fp = <<>> THEN NaN ELSE Dec(ValueOf(ip), FractionOf(fp))
      : text \in {s}, ip \in {TakeDigits(s)}})

\* x.replace(/[kK]/g, '000')
RECURSIVE ReplaceK(_)
ReplaceK(s) ==
  IF s = <<>> THEN <<>>
  ELSE (IF Head(s) \in {"k", "K"} THEN <<"0", "0", "0">> ELSE <<Head(s)>>)
       \o ReplaceK(Tail(s))

\* .replace(/[^\d\.]/g, '')
IsNumeric(ch) == IsDigit(ch) \/ ch = "."
StripNonNumeric(s) == SelectSeq(s, IsNumeric)

\* n || 0
OrZero(n) == The({IF n0.nan \/ (n0.w = 0 /\ n0.f = 0) THEN Dec(0, 0) ELSE n0 : n0 \in {n}})

\* cleanNum, line 85 to 91: parseFloat of a number reads its decimal text, of
\* undefined is NaN
cleanNum(x) ==
  IF x.t = "str" THEN OrZero(parseFloat(StripNonNumeric(ReplaceK(x.v))))
  ELSE IF x.t = "num" THEN OrZero(parseFloat(x.v))
  ELSE OrZero(NaN)

\* Math.round(Math.log10(x) * 1.5 * 10) for x >= 10: entry k is the least
\* number, rounded up to ten-thousandths, whose result is 15 + k, that is
\* 10 ^ ((15 + k - 1/2) / 15), an irrational number
LogSteps ==
  <<<<10, 7978>>, <<12, 5893>>, <<14, 6780>>, <<17, 1133>>, <<19, 9527>>, <<23, 2631>>,
    <<27, 1228>>, <<31, 6228>>, <<36, 8695>>, <<42, 9867>>, <<50, 1188>>, <<58, 4342>>,
    <<68, 1293>>, <<79, 4329>>, <<92, 6119>>, <<107, 9776>>, <<125, 8926>>,
    <<146, 7800>>, <<171, 1329>>, <<199, 5263>>, <<232, 6306>>, <<271, 2273>>,
    <<316, 2278>>, <<368, 6946>>, <<429, 8663>>, <<501, 1873>>, <<584, 3415>>,
    <<681, 2921>>, <<794, 3283>>, <<926, 1188>>, <<1079, 7752>>, <<1258, 9255>>,
    <<1467, 7993>>, <<1711, 3284>>, <<1995, 2624>>, <<2326, 3051>>, <<2712, 2726>>,
    <<3162, 2777>>, <<3686, 9451>>, <<4298, 6624>>, <<5011, 8724>>, <<5843, 4142>>,
    <<6812, 9207>>, <<7943, 2824>>, <<9261, 1873>>, <<10797, 7517>>, <<12589, 2542>>,
    <<14677, 9927>>, <<17113, 2831>>, <<19952, 6232>>, <<23263, 507>>, <<27122, 7258>>,
    <<31622, 7767>>, <<36869, 4507>>, <<42986, 6235>>, <<50118, 7234>>,
    <<58434, 1414>>, <<68129, 2070>>, <<79432, 8235>>, <<92611, 8729>>,
    <<107977, 5163>>, <<125892, 5412>>, <<146779, 9268>>, <<171132, 8305>>,
    <<199526, 2315>>, <<232630, 5068>>, <<271227, 2580>>, <<316227, 7661>>,
    <<368694, 5065>>, <<429866, 2348>>, <<501187, 2337>>, <<584341, 4134>>,
    <<681292, 691>>, <<794328, 2348>>, <<926118, 7282>>, <<1079775, 1624>>,
    <<1258925, 4118>>, <<1467799, 2677>>, <<1711328, 3042>>, <<1995262, 3150>>,
    <<2326305, 672>>, <<2712272, 5794>>, <<3162277, 6602>>, <<3686945, 646>>,
    <<4298662, 3471>>, <<5011872, 3363>>, <<5843414, 1338>>, <<6812920, 6906>>,
    <<7943282, 3473>>, <<9261187, 2813>>, <<10797751, 6233>>, <<12589254, 1180>>,
    <<14677992, 6763>>, <<17113283, 417>>, <<19952623, 1497>>, <<23263050, 6716>>,
    <<27122725, 7934>>, <<31622776, 6017>>, <<36869450, 6452>>, <<42986623, 4709>>,
    <<50118723, 3628>>, <<58434141, 3374>>, <<68129206, 9058>>, <<79432823, 4725>>,
    <<92611872, 8129>>, <<107977516, 2328>>, <<125892541, 1795>>, <<146779926, 7623>>,
    <<171132830, 4162>>, <<199526231, 4969>>, <<232630506, 7154>>, <<271227257, 9333>>,
    <<316227766, 169>>, <<368694506, 4520>>, <<429866234, 7083>>, <<501187233, 6273>>,
    <<584341413, 3736>>, <<681292069, 580>>, <<794328234, 7243>>, <<926118728, 1288>>>>

\* how many entries are at most x, a number known to lie in lo..hi; the
\* table increases, so the count is found by halving
RECURSIVE StepsBetween(_, _, _)
StepsBetween(x, lo, hi) ==
  IF lo >= hi THEN lo
  ELSE LET mid == (lo + hi + 1) \div 2
       IN IF DecLeq(Dec(LogSteps[mid][1], LogSteps[mid][2]), x)
          THEN StepsBetween(x, mid, hi)
          ELSE StepsBetween(x, lo, mid - 1)

RoundLog15(x) == The({15 + StepsBetween(x0, 0, Len(LogSteps)) : x0 \in {x}})

\* Math.min(10.0, r / 10), in tenths
CapAtTen_None(r) == r
CapAtTen(r) == Min(100, r)

\* v + i * 5 + 10, line 94
LogArgument(v, i) == DecAdd(DecAdd(v, DecTimes(5, i)), Dec(10, 0))

\* the result in tenths: 45 is 4.5
calculateVolumeQuality(views, interactions) ==
  The({CapAtTen(r) : r \in {RoundLog15(LogArgument(v, i)) :
                              v \in {cleanNum(views)}, i \in {cleanNum(interactions)}}})

\* ------------------------------------------------ the row, lines 156 to 168
mediaNameOf(row) == Or(Or(row.meitimingcheng, row.meiti), Str(<<"UNKNOWN">>))

\* row['正文']?.substring(0, 20) throws when 正文 is a number: it is evaluated
\* only when 标题 and Title are falsy
TitleThrows(row) ==
  ~Truthy(row.biaoti) /\ ~Truthy(row.Title) /\ row.zhengwen.t = "num"

titleOf(row) ==
  Or(Or(Or(row.biaoti, row.Title),
        IF row.zhengwen.t = "str" THEN Substring0(row.zhengwen, TitleLen) ELSE Undef),
     Str(<<"NO_TITLE">>))

contentOf(row) ==
  Or(Or(Or(Or(row.zhengwen, row.Content), row.biaoti), titleOf(row)), Str(<<>>))

urlOf(row) == Or(row.URL, Str(<<>>))

FloorResult == AIResult(FloorScore, FloorScore, FloorScore, <<"PENDING">>)

\* Math.round(((i + 1) / totalRows) * 100), Math.round(x) = floor(x + 1/2)
ProgressAfter(i, totalRows) == (200 * (i + 1) + totalRows) \div (2 * totalRows)

\* `AI分析失败: ${e.message}`
FailureComment_NoMarker(msg) == msg
FailureComment(msg) == <<"AI_FAIL: ">> \o msg

\* line 159 and 160
viewsOf(row) == Or(Or(row.liulanliang, row.PV), Num(<<"0">>))

\* parseFloat(cell) || 0: the cell is read as its text, undefined gives NaN
ParseCell(x) == OrZero(IF x.t = "undef" THEN NaN ELSE parseFloat(x.v))

DigitChar(d) == <<"0", "1", "2", "3", "4", "5", "6", "7", "8", "9">>[d + 1]

RECURSIVE IntText(_)
IntText(n) == IF n < 10 THEN <<DigitChar(n)>> ELSE Append(IntText(n \div 10), DigitChar(n % 10))

\* the decimals of f ten-thousandths without the zeros at the end
RECURSIVE FractionText(_, _)
FractionText(f, width) ==
  IF f % 10 = 0 /\ width > 1 THEN FractionText(f \div 10, width - 1)
  ELSE IF width = 1 THEN <<DigitChar(f)>>
  ELSE Append(FractionText(f \div 10, width - 1), DigitChar(f % 10))

\* Number to string of a number that is not negative, as parseFloat(x) of a
\* number reads it
NumberValue(d) ==
  The({Num(IF d0.f = 0 THEN IntText(d0.w)
           ELSE IntText(d0.w) \o <<".">> \o FractionText(d0.f, 4)) : d0 \in {d}})

interactionsOf(row) ==
  NumberValue(DecAdd(DecAdd(ParseCell(row.dianzanliang), ParseCell(row.zhuanfaliang)),
                     ParseCell(row.pinglunliang)))

\* Scores below are whole numbers of ten-thousandths: volQuality comes in
\* tenths, the tier and the three AI scores are whole numbers.
\* 0.6 * volQuality + 0.4 * tierScore, line 165
volTotalOf_Swapped(volQuality, tierScore) == 400 * volQuality + 6000 * tierScore
volTotalOf(volQuality, tierScore) == 600 * volQuality + 4000 * tierScore

\* 0.6 * km_score + 0.4 * audience_precision_score, line 182
trueDemandOf(aiRes) == 6000 * aiRes.km_score + 4000 * aiRes.audience_precision_score

\* 0.5 * trueDemand + 0.2 * acquisition_score + 0.3 * volTotal, line 183
totalScoreOf(trueDemand, aiRes, volTotal) ==
  (5 * trueDemand) \div 10 + 2000 * aiRes.acquisition_score + (3 * volTotal) \div 10

\* x.toFixed(2) of x ten-thousandths, not negative: the nearest hundredth
CentsText(cents) ==
  IntText(cents \div 100) \o <<".", DigitChar((cents \div 10) % 10), DigitChar(cents % 10)>>
toFixed2(x) == CentsText((x + 50) \div 100)

\* the record pushed at line 185 to 197; chuanbozhiliang is in tenths
\* L163 for the rows of the upload specifications, computed once
KnownVolQuality ==
  [row \in AllRows |-> calculateVolumeQuality(viewsOf(row), interactionsOf(row))]

\* L163: const volQuality = calculateVolumeQuality(views, interactions)
volQualityOf(row) ==
  IF row \in AllRows THEN KnownVolQuality[row]
  ELSE calculateVolumeQuality(viewsOf(row), interactionsOf(row))

\* aiRes.km_score and the like: undefined for a property the object lacks
PropertyOf(aiRes, name) == IF name \in aiRes.missing THEN Undef ELSE aiRes[name]

\* x.toFixed(2) as the record holds it: arithmetic on undefined gives NaN
FixedOf(x, aiRes, used) ==
  IF aiRes.missing \cap used = {} THEN Str(toFixed2(x)) ELSE Str(<<"NaN">>)

MakeRecord(row, aiRes) ==
  The({LET volTotal == volTotalOf(volQuality, tierScore)
           trueDemand == trueDemandOf(aiRes)
           totalScore == totalScoreOf(trueDemand, aiRes, volTotal)
       IN [biaoti |-> titleOf(row), meitimingcheng |-> mediaNameOf(row),
           xiangmuzongfen |-> FixedOf(totalScore, aiRes, ScoreFields),
           zhenxuqiu |-> FixedOf(trueDemand, aiRes, {"km_score", "audience_precision_score"}),
           huokexiaoneng |-> PropertyOf(aiRes, "acquisition_score"),
           shengliang |-> Str(toFixed2(volTotal)),
           hexinxinxipipei |-> PropertyOf(aiRes, "km_score"),
           shouzhongjingzhundu |-> PropertyOf(aiRes, "audience_precision_score"),
           meitifenji |-> tierScore,
           chuanbozhiliang |-> volQuality,
           pingjia |-> PropertyOf(aiRes, "comment")]
      : volQuality \in {volQualityOf(row)},
        tierScore \in {getMediaTierScore(mediaNameOf(row))}})

\* ---------------------------------- the result table, lines 227 to 258
\* the value of a number text, in ten-thousandths
Scaled(d) == 10000 * d.w + d.f

Sign(n) == IF n < 0 THEN -1 ELSE IF n > 0 THEN 1 ELSE 0

\* Array.prototype.sort is stable: an element comes after those the
\* comparator puts before it and after the earlier ones it ties with.
\* compared[j][i] is the comparator's answer on elements j and i; the result
\* is the order of the indices of the list.
SortOrder(compared) ==
  LET n == Len(compared)
      place(i) == 1 + Cardinality({j \in 1..n : compared[j][i] < 0})
                    + Cardinality({j \in 1..(i - 1) : compared[j][i] = 0})
  IN CHOOSE order \in {[p \in 1..n |-> CHOOSE i \in 1..n : places[i] = p] :
                         places \in {[i \in 1..n |-> place(i)]}} : TRUE

Pick(list, order) == [p \in 1..Len(order) |-> list[order[p]]]

\* (a, b) => parseFloat(b.项目总分) - parseFloat(a.项目总分), line 256
CompareTotals_Ascending(a, b) ==
  Sign(Scaled(parseFloat(a.xiangmuzongfen.v)) - Scaled(parseFloat(b.xiangmuzongfen.v)))
CompareTotals(a, b) ==
  Sign(Scaled(parseFloat(b.xiangmuzongfen.v)) - Scaled(parseFloat(a.xiangmuzongfen.v)))

\* .slice(0, 10)
SliceTop(order) == SubSeq(order, 1, Min(TopCount, Len(order)))

\* top10Results, line 253 to 258: the indices, then the records
rankedOrder ==
  IF batchResults.null THEN <<>>
  ELSE LET list == batchResults.list
       IN SortOrder([j \in 1..Len(list) |->
                       [i \in 1..Len(list) |-> CompareTotals(list[j], list[i])]])
top10Order == SliceTop(rankedOrder)
top10Results == IF batchResults.null THEN <<>> ELSE Pick(batchResults.list, top10Order)

\* requestSort, line 227 to 233
NextDirection_AnyKey(cfg, key) ==
  IF cfg.set /\ cfg.direction = "desc" THEN "asc" ELSE "desc"
NextDirection(cfg, key) ==
  IF cfg.set /\ cfg.key = key /\ cfg.direction = "desc" THEN "asc" ELSE "desc"

\* the columns whose header calls requestSort, line 477 to 485: the title, the
\* media name, the tier, the audience precision, the volume quality, the volume
SortKeys ==
  {"biaoti", "meitimingcheng", "meitifenji", "shouzhongjingzhundu", "chuanbozhiliang",
   "shengliang"}

\* the fields a record holds as numbers of its own making; the title and the
\* media name are the cell's value, a number when the cell is one
ScoreKeys ==
  {"meitifenji", "shouzhongjingzhundu", "chuanbozhiliang", "huokexiaoneng",
   "hexinxinxipipei"}

\* typeof val === 'number'
TypeofNumber(rec, key) == key \in ScoreKeys \/ rec[key].t = "num"

\* the number, in ten-thousandths
NumberUnder(rec, key) ==
  IF key \in ScoreKeys THEN 10000 * rec[key] ELSE Scaled(parseFloat(rec[key].v))

\* String(val)
StringUnder(rec, key) == IF key \in ScoreKeys THEN IntText(rec[key]) ELSE rec[key].v

\* The zh-CN collation of the few characters the table holds here: blank and
\* point, then digits, then Latin letters, then Han characters by pinyin
\* ("HAN_AN" is U+5B89, "HAN_BEI" is U+5317); a capital differs from its small
\* letter at the third level only.
CollationRank(ch) ==
  CASE ch = " " -> 1 [] ch = "." -> 2
    [] IsDigit(ch) -> 10 + DigitVal(ch)
    [] ch \in {"a", "A"} -> 30 [] ch \in {"b", "B"} -> 31 [] ch \in {"r", "R"} -> 47
    [] ch \in {"x", "X"} -> 53
    [] ch = "HAN_AN" -> 100 [] ch = "HAN_BEI" -> 101
    [] OTHER -> 60
CaseRank(ch) == IF ch \in {"A", "B", "R", "X"} THEN 1 ELSE 0

\* UTF-16 code units, the order of the < operator on strings
CodeUnit(ch) ==
  CASE ch = " " -> 32 [] ch = "." -> 46
    [] IsDigit(ch) -> 48 + DigitVal(ch)
    [] ch = "A" -> 65 [] ch = "B" -> 66 [] ch = "R" -> 82 [] ch = "X" -> 88
    [] ch = "a" -> 97 [] ch = "b" -> 98 [] ch = "r" -> 114 [] ch = "x" -> 120
    [] ch = "HAN_BEI" -> 21271 [] ch = "HAN_AN" -> 23433
    [] OTHER -> 127

\* compare two texts character by character under a weight, a proper prefix first
RECURSIVE CompareUnder(_, _, _)
CompareUnder(s, t, weight) ==
  IF s = <<>> /\ t = <<>> THEN 0
  ELSE IF s = <<>> THEN -1
  ELSE IF t = <<>> THEN 1
  ELSE IF weight[Head(s)] # weight[Head(t)] THEN Sign(weight[Head(s)] - weight[Head(t)])
  ELSE CompareUnder(Tail(s), Tail(t), weight)

CharsOf(s, t) == {s[k] : k \in 1..Len(s)} \cup {t[k] : k \in 1..Len(t)}

\* strA.localeCompare(strB, 'zh-CN')
localeCompare_CodeUnits(s, t) ==
  CompareUnder(s, t, [ch \in CharsOf(s, t) |-> CodeUnit(ch)])
localeCompare(s, t) ==
  LET first == CompareUnder(s, t, [ch \in CharsOf(s, t) |-> CollationRank(ch)])
  IN IF first # 0 THEN first
     ELSE CompareUnder(s, t, [ch \in CharsOf(s, t) |-> CaseRank(ch)])

\* the comparator of line 239 to 248 under the sort in force
CompareRows(a, b) ==
  LET key == sortConfig.key
  IN IF TypeofNumber(a, key) /\ TypeofNumber(b, key)
     THEN IF sortConfig.direction = "asc"
          THEN Sign(NumberUnder(a, key) - NumberUnder(b, key))
          ELSE Sign(NumberUnder(b, key) - NumberUnder(a, key))
     ELSE IF sortConfig.direction = "asc"
          THEN localeCompare(StringUnder(a, key), StringUnder(b, key))
          ELSE localeCompare(StringUnder(b, key), StringUnder(a, key))

KeepOrder(list) == [p \in 1..Len(list) |-> p]

\* sortedResults, line 235 to 251: the indices, then the records
sortedOrder ==
  IF batchResults.null THEN <<>>
  ELSE IF sortConfig.set
  THEN LET list == batchResults.list
       IN SortOrder([j \in 1..Len(list) |->
                       [i \in 1..Len(list) |-> CompareRows(list[j], list[i])]])
  ELSE KeepOrder(batchResults.list)
sortedResults ==
  IF batchResults.null THEN Null ELSE Published(Pick(batchResults.list, sortedOrder))

\* parseFloat(b[key] as string || "0"), in ten-thousandths; the volume quality
\* is held in tenths
FieldNumber(rec, key) ==
  IF key = "chuanbozhiliang" THEN 1000 * rec[key]
  ELSE IF key \in ScoreKeys THEN 10000 * rec[key]
  ELSE Scaled(OrZero(parseFloat(rec[key].v)))

\* batchResults.reduce((a, b) => a + parseFloat(...), 0)
RECURSIVE SumField(_, _)
SumField(list, key) ==
  IF list = <<>> THEN 0 ELSE FieldNumber(Head(list), key) + SumField(Tail(list), key)

\* sum / batchResults.length: 0 / 0 is NaN
Average(list, key) ==
  IF Len(list) = 0 THEN NaN
  ELSE Dec((SumField(list, key) \div Len(list)) \div 10000,
           (SumField(list, key) \div Len(list)) % 10000)

\* avgVal.toFixed(2), line 512 to 517: NaN prints as NaN
AverageText(list, key) ==
  IF Len(list) = 0 THEN <<"NaN">>
  ELSE CentsText((2 * SumField(list, key) + 100 * Len(list)) \div (200 * Len(list)))

MetricKeys == {"xiangmuzongfen", "zhenxuqiu", "huokexiaoneng", "shengliang"}
RadarKeys ==
  {"hexinxinxipipei", "huokexiaoneng", "shouzhongjingzhundu", "meitifenji", "chuanbozhiliang"}

\* the four metrics of the report tab, line 507 to 520: the notice while
\* batchResults is null, the averages otherwise
summaryMetrics ==
  IF batchResults.null THEN [shown |-> FALSE, values |-> <<>>]
  ELSE [shown |-> TRUE,
        values |-> [key \in MetricKeys |-> AverageText(batchResults.list, key)]]

\* radarData of renderCharts, line 270 to 281, on the report tab with the
\* chart library loaded
radarData ==
  IF batchResults.null THEN [shown |-> FALSE, values |-> <<>>]
  ELSE [shown |-> TRUE,
        values |-> [key \in RadarKeys |-> Average(batchResults.list, key)]]

\* what one render shows
Render ==
  CHOOSE view \in {[top10Order |-> order,
                    top10Results |-> IF batchResults.null THEN <<>>
                                     ELSE Pick(batchResults.list, order)] :
                   order \in {top10Order}} : TRUE

\* ------------------------------------------- analyzeWithGemini, retry policy
IsRateLimit_Any(msg) == TRUE
IsRateLimit(msg) == Includes(msg, "429") \/ Includes(msg, "RESOURCE_EXHAUSTED")

ShouldRetry_Always(isRateLimit, retries) == isRateLimit /\ retries >= 0
ShouldRetry(isRateLimit, retries) == isRateLimit /\ retries > 0

\* while (retries >= 0), line 40
LoopTest_Positive(retries) == retries > 0
LoopTest(retries) == retries >= 0

NextBackoff_Linear(backoffMs) == backoffMs + InitialBackoffMs
NextBackoff(backoffMs) == backoffMs * 2

\* !apiKey || apiKey === "undefined" || apiKey === "", line 15
ApiKeyMissing_Unset(key) == key = Undef
ApiKeyMissing(key) == ~Truthy(key) \/ key = Str(<<"undefined">>)

\* ------------------------------------------------- the body of reader.onload
\* c = [l |-> the invocation's locals, g |-> the React state].  Every operator
\* runs the code from one point to the next await (or to the end).

\* catch (err) { setErrorLog("Excel 处理错误: " + err.message) } finally {...}
OuterCatch(c, msg) ==
  The({
      [l |-> [c0.l EXCEPT !.pc = "failed"],
       g |-> [c0.g EXCEPT !.errorLog = <<"EXCEL_ERR: ">> \o msg, !.isProcessing = FALSE]]
  : c0 \in {c}})

RECURSIVE RowLoop(_)

\* results.push(record), line 185
PushRecord_Front(results, record) == <<record>> \o results
PushRecord(results, record) == Append(results, record)

\* if (i > 0), line 177
NeedsPacing_Always(i) == TRUE
NeedsPacing(i) == i > 0

\* lines 182 to 198: compose, push, setProgress, i++
Compose(c, aiRes) ==
  The({
      IF aiRes.isNull THEN OuterCatch(c0, MsgNullProperty)
      ELSE LET row == c0.l.file.rows[c0.l.i + 1]
           IN RowLoop([l |-> [c0.l EXCEPT !.results = PushRecord(@, MakeRecord(row, aiRes)),
                                         !.i = @ + 1],
                       g |-> [c0.g EXCEPT !.progress =
                                            ProgressAfter(c0.l.i, Len(c0.l.file.rows))]])
  : c0 \in {c}})

\* line 179: catch (e) { aiRes.comment = `AI分析失败: ${e.message}` }
RowCatch(c, msg) ==
  The({
      Compose([c0 EXCEPT !.l.ret = Threw(msg), !.l.failed = @ \cup {c0.l.i + 1}],
              [FloorResult EXCEPT !.comment = FailureComment(msg)])
  : c0 \in {c}})

\* line 178: the audienceMode, projectKeyMessage and projectDesc the call is
\* given are the constants of the render whose handler took the upload
CallSettings_Current(c) == c.g.settings
CallSettings(c) == c.l.config

\* analyzeWithGemini, lines 13 to 42: up to the first generateContent
EnterCall(c) ==
  The({
      LET l == [c0.l EXCEPT !.calls = 0, !.waits = <<>>, !.attempts = <<>>, !.ret = NoRet,
                           !.sent = @ \cup {CallSettings(c0)}]
      IN IF ApiKeyMissing(c0.g.apiKey) THEN RowCatch([c0 EXCEPT !.l = l], MsgApiKey)
         ELSE IF l.content.t # "str" THEN RowCatch([c0 EXCEPT !.l = l], MsgNotAFunction)
         ELSE [c0 EXCEPT !.l = [l EXCEPT !.pc = "calling", !.retries = InitialRetries,
                                        !.backoffMs = InitialBackoffMs, !.calls = 1]]
  : c0 \in {c}})

\* line 175 to 178
AfterResolve(c) ==
  The({
      LET row == c0.l.file.rows[c0.l.i + 1]
      IN IF Truthy(c0.l.content) \/ Truthy(mediaNameOf(row))
         THEN IF NeedsPacing(c0.l.i) THEN [c0 EXCEPT !.l.pc = "pacing"]
              ELSE EnterCall(c0)
         ELSE Compose(c0, FloorResult)
  : c0 \in {c}})

\* line 155 to 173, and line 200 when the loop is over
RowLoop(c) ==
  The({
      IF c0.l.i >= Len(c0.l.file.rows)
      THEN [l |-> [c0.l EXCEPT !.pc = "done"],
            g |-> [c0.g EXCEPT !.batchResults = Published(c0.l.results),
                              !.isProcessing = FALSE]]
      ELSE LET row == c0.l.file.rows[c0.l.i + 1]
               url == urlOf(row)
               c1 == [c0 EXCEPT !.l.content = contentOf(row)]
           IN IF TitleThrows(row) THEN OuterCatch(c0, MsgNotAFunction)
              ELSE IF ~Truthy(c1.l.content) /\ Truthy(url)
                   THEN IF url.t # "str" THEN OuterCatch(c1, MsgNotAFunction)
                        ELSE IF StartsWithHttp(url.v)
                             THEN [c1 EXCEPT !.l.pc = "fetching", !.l.fetched = @ \cup {c0.l.i + 1}]
                             ELSE AfterResolve(c1)
                   ELSE AfterResolve(c1)
  : c0 \in {c}})

\* line 171 to 172, after fetchUrlContent came back with scraped (null: Undef)
AfterFetch(c, scraped) ==
  The({
      AfterResolve(IF Truthy(scraped) THEN [c0 EXCEPT !.l.content = scraped] ELSE c0)
  : c0 \in {c}})

\* analyzeWithGemini line 63 to 72: the catch block, e.message = msg
CallCatch_Eager(c, msg) ==
  The({
      IF ShouldRetry(IsRateLimit(msg), c0.l.retries)
      THEN [c0 EXCEPT !.l.pc = "backoff", !.l.calls = @ + 1]
      ELSE RowCatch(c0, msg)
  : c0 \in {c}})
CallCatch(c, msg) ==
  The({
      IF ShouldRetry(IsRateLimit(msg), c0.l.retries)
      THEN [c0 EXCEPT !.l.pc = "backoff"]
      ELSE RowCatch(c0, msg)
  : c0 \in {c}})

\* analyzeWithGemini line 60 to 62, after generateContent came back with o
AfterAttempt(c, o) ==
  The({
      LET c1 == [c0 EXCEPT !.l.attempts = Append(@, o)]
      IN CASE o.k = "reject" -> CallCatch(c1, o.msg)
           [] o.k = "empty" -> CallCatch(c1, MsgEmpty)
           [] o.k = "badjson" -> CallCatch(c1, o.msg)
           [] o.k = "json" -> Compose([c1 EXCEPT !.l.ret = Returned(o.val)], o.val)
  : c0 \in {c}})

\* analyzeWithGemini line 67 to 70 and 42: after delay(backoffMs)
\* and line 40 and 75: the test of the loop, and the throw after the loop
AfterBackoff(c) ==
  The({
      LET c1 == [c0 EXCEPT !.l.waits = Append(@, c0.l.backoffMs),
                           !.l.retries = @ - 1,
                           !.l.backoffMs = NextBackoff(@)]
      IN IF LoopTest(c1.l.retries)
         THEN [c1 EXCEPT !.l.calls = @ + 1, !.l.pc = "calling"]
         ELSE RowCatch(c1, MsgSpent)
  : c0 \in {c}})

\* ----------------------------------------------------------------- actions
Config(b) ==
  [l |-> batch[b],
   g |-> [isProcessing |-> isProcessing, progress |-> progress, errorLog |-> errorLog,
          batchResults |-> batchResults, apiKey |-> apiKey, settings |-> settings]]

Apply(b, c) ==
  /\ \E after \in {c} :
       /\ batch' = [batch EXCEPT ![b] = after.l]
       /\ isProcessing' = after.g.isProcessing
       /\ progress' = after.g.progress
       /\ errorLog' = after.g.errorLog
       /\ batchResults' = after.g.batchResults
  /\ UNCHANGED <<wordResult, apiKey, aux>>

\* handleExcelFile line 136 to 144 and 203, for a chosen file.  Nothing in the
\* code looks at isProcessing: an upload is accepted in every state.
handleExcelFile(b, file) ==
  /\ batch[b].pc = "idle"
  /\ b > 1 => batch[b - 1].pc # "idle"
  /\ batch' = [batch EXCEPT ![b] = [@ EXCEPT !.pc = "reading", !.file = file,
                                            !.config = settings]]
  /\ isProcessing' = TRUE
  /\ errorLog' = <<>>
  /\ batchResults' = Null
  /\ progress' = 0
  /\ UNCHANGED <<wordResult, apiKey, aux>>

\* const results: BatchResult[] = [], line 152: each run of reader.onload has
\* an array of its own
NewResults_Shared(b) == IF b > 1 THEN batch[b - 1].results ELSE <<>>
NewResults(b) == <<>>

\* reader.onload line 145 to 201, up to its first await
readerOnload(b) ==
  /\ batch[b].pc = "reading"
  /\ batch[b].file.readable
  /\ Apply(b, IF batch[b].file.ok
              THEN RowLoop([Config(b) EXCEPT !.l.i = 0, !.l.results = NewResults(b)])
              ELSE OuterCatch(Config(b), MsgXlsx))

\* the FileReader could not read the file: its error event fires, and no
\* handler is set for it (line 145 sets onload only)
readerOnerror(b) ==
  /\ batch[b].pc = "reading"
  /\ ~batch[b].file.readable
  /\ batch' = [batch EXCEPT ![b].pc = "unread"]
  /\ UNCHANGED <<isProcessing, progress, errorLog, batchResults, wordResult, apiKey, aux>>

FetchResults == {Undef, Str(<<"scraped text">>)}

\* the row's own awaits are over: fetchUrlContent (line 171) came back, or the
\* 800 ms pacing timer (line 177) fired
RowResume(b) ==
  /\ batch[b].pc \in {"fetching", "pacing"}
  /\ \E scraped \in FetchResults :
       Apply(b, IF batch[b].pc = "fetching"
                THEN AfterFetch(Config(b), scraped)
                ELSE EnterCall([Config(b) EXCEPT !.l.paced = Append(@, PacingMs)]))

\* generateContent settled with outcome o
AttemptReturn(b, o) ==
  /\ batch[b].pc = "calling"
  /\ Apply(b, AfterAttempt(Config(b), o))

\* the backoff timer fired
BackoffDone(b) ==
  /\ batch[b].pc = "backoff"
  /\ Apply(b, AfterBackoff(Config(b)))

\* handleReset line 260 to 267, the user confirming
handleReset ==
  /\ wordResult' = NoWord
  /\ batchResults' = Null
  /\ progress' = 0
  /\ errorLog' = <<>>
  /\ batch' = [b \in Batches |->
                 IF Running(batch[b]) /\ batch[b].cancelAt < 0
                 THEN [batch[b] EXCEPT !.cancelAt = batch[b].i]
                 ELSE batch[b]]
  /\ UNCHANGED <<isProcessing, apiKey, aux>>

\* ------------------------------- fetchUrlContent, line 109 to 114 and 168 to 173
\* what fetch(`https://r.jina.ai/${url}`) and response.text() can come to: the
\* request rejects, or it answers with a status and a body that may not be
\* readable
NetworkError == [k |-> "reject", ok |-> FALSE, readable |-> FALSE, text |-> <<>>]
Response(ok, readable, text) == [k |-> "response", ok |-> ok, readable |-> readable, text |-> text]

\* the promise of fetchUrlContent: settled |-> "resolved" with value (Undef
\* stands for null) or "rejected"; requests counts the calls of fetch
Resolved(value, requests) == [settled |-> "resolved", value |-> value, requests |-> requests]
RejectedPromise(requests) == [settled |-> "rejected", value |-> Undef, requests |-> requests]

fetchUrlContent_NoCatch(o) ==
  IF o.k = "reject" THEN RejectedPromise(1)
  ELSE IF ~o.ok THEN Resolved(Undef, 1)
  ELSE IF ~o.readable THEN RejectedPromise(1)
  ELSE Resolved(Str(o.text), 1)
fetchUrlContent(o) ==
  IF o.k = "reject" THEN Resolved(Undef, 1)
  ELSE IF ~o.ok THEN Resolved(Undef, 1)
  ELSE IF ~o.readable THEN Resolved(Undef, 1)
  ELSE Resolved(Str(o.text), 1)

\* line 170 to 173 for a row whose text so far is content: the text after,
\* the requests made, and where the row goes next (line 175, or the catch of
\* line 201 when the await threw)
resolveContent(content, url, o) ==
  IF ~Truthy(content) /\ Truthy(url) /\ StartsWithHttp(url.v)
  THEN LET scraped == fetchUrlContent(o)
       IN IF scraped.settled = "rejected"
          THEN [content |-> content, requests |-> scraped.requests, next |-> "catch"]
          ELSE [content |-> IF Truthy(scraped.value) THEN scraped.value ELSE content,
                requests |-> scraped.requests, next |-> "line 175"]
  ELSE [content |-> content, requests |-> 0, next |-> "line 175"]

\* lines 170 to 173 applied to a text, a URL and what the network does
ResolveContent(content, url, o) ==
  /\ calc' = [fn |-> "resolve", content |-> content, url |-> url, outcome |-> o,
              out |-> resolveContent(content, url, o)]
  /\ UNCHANGED <<isProcessing, progress, errorLog, batchResults, wordResult, apiKey,
                 batch, tiers, sortConfig, settings, doc, pTotal, pDone, pValue, pPrev>>

\* a change of one of the three inputs, line 365, 367 and 372
changeSettings(s) ==
  /\ s # settings
  /\ settings' = s
  /\ UNCHANGED <<isProcessing, progress, errorLog, batchResults, wordResult, apiKey,
                 batch, tiers, sortConfig, calc, doc, pTotal, pDone, pValue, pPrev>>

\* ------------------------------------------ handleWordFile, line 116 to 134
MinTextLen == 10

\* fullText.trim().length < 10, line 126
TooShort_Untrimmed(fullText) == Len(fullText) < MinTextLen
TooShort(fullText) == Len(Trim(fullText)) < MinTextLen

\* what handleWordFile writes: d its locals, the three states it sets
DocState(d, processing, log, result) ==
  [d |-> d, isProcessing |-> processing, errorLog |-> log, wordResult |-> result]

\* catch (err) { setErrorLog(err.message || "分析 Word 文档时出错") } finally
\* { setIsProcessing(false) }, line 129 to 133
DocCatch(d, msg) ==
  DocState([d EXCEPT !.pc = "failed"], FALSE,
           IF msg = <<>> THEN MsgWordFallback ELSE msg, wordResult)

\* line 125 to 127 and analyzeWithGemini up to the first generateContent
DocExtracted(d) ==
  IF ~d.file.docx THEN DocCatch(d, MsgDocx)
  ELSE IF TooShort(d.file.text) THEN DocCatch(d, MsgTooShort)
  ELSE IF ApiKeyMissing(apiKey) THEN DocCatch(d, MsgApiKey)
  ELSE DocState([d EXCEPT !.pc = "calling", !.retries = InitialRetries,
                          !.backoffMs = InitialBackoffMs, !.calls = 1],
                isProcessing, errorLog, wordResult)

\* analyzeWithGemini line 60 to 72, then line 128 and the finally block
DocAttempt(d, o) ==
  LET d1 == [d EXCEPT !.attempts = Append(@, o)]
      msg == IF o.k = "empty" THEN MsgEmpty ELSE o.msg
  IN IF o.k = "json"
     THEN DocState([d1 EXCEPT !.pc = "done"], FALSE, errorLog,
                   WordResult(o.val, Len(d.file.text)))
     ELSE IF ShouldRetry(IsRateLimit(msg), d.retries)
          THEN DocState([d1 EXCEPT !.pc = "backoff"], isProcessing, errorLog, wordResult)
          ELSE DocCatch(d1, msg)

ApplyDoc(after) ==
  /\ doc' = after.d
  /\ isProcessing' = after.isProcessing
  /\ errorLog' = after.errorLog
  /\ wordResult' = after.wordResult
  /\ UNCHANGED <<progress, batchResults, apiKey, batch, tiers, sortConfig, calc,
                 settings, pTotal, pDone, pValue, pPrev>>

\* handleWordFile line 116 to 123, for a chosen file
handleWordFile(file) ==
  /\ doc.pc = "idle"
  /\ ApplyDoc(DocState([doc EXCEPT !.pc = "buffering", !.file = file, !.config = settings],
                       TRUE, <<>>, NoWord))

\* file.arrayBuffer() settled, line 123
DocBuffered ==
  /\ doc.pc = "buffering"
  /\ ApplyDoc(IF doc.file.readable
              THEN DocState([doc EXCEPT !.pc = "extracting"],
                            isProcessing, errorLog, wordResult)
              ELSE DocCatch(doc, MsgRead))

\* mammoth.extractRawText settled, line 124
DocExtract ==
  /\ doc.pc = "extracting"
  /\ ApplyDoc(DocExtracted(doc))

\* generateContent settled with outcome o
DocAttemptReturn(o) ==
  /\ doc.pc = "calling"
  /\ ApplyDoc(DocAttempt(doc, o))

\* the backoff timer fired
DocBackoffDone ==
  /\ doc.pc = "backoff"
  /\ \E d \in {[doc EXCEPT !.waits = Append(@, doc.backoffMs),
                           !.retries = @ - 1,
                           !.backoffMs = NextBackoff(@)]} :
       ApplyDoc(IF LoopTest(d.retries)
                THEN DocState([d EXCEPT !.calls = @ + 1, !.pc = "calling"],
                              isProcessing, errorLog, wordResult)
                ELSE DocCatch(d, MsgSpent))

\* one more row of a run of pTotal rows has set the progress
ProgressStep ==
  /\ pDone < pTotal
  /\ pValue' = ProgressAfter(pDone, pTotal)
  /\ pPrev' = pValue
  /\ pDone' = pDone + 1
  /\ UNCHANGED <<isProcessing, progress, errorLog, batchResults, wordResult, apiKey, settings, doc,
                 batch, tiers, sortConfig, calc, pTotal>>

\* getMediaTierScore(mediaName) under the tier lists in force
ScoreMedia(mediaName) ==
  /\ calc' = [fn |-> "tier", name |-> mediaName, out |-> getMediaTierScore(mediaName)]
  /\ UNCHANGED <<isProcessing, progress, errorLog, batchResults, wordResult, apiKey, settings, doc,
                 batch, tiers, sortConfig, pTotal, pDone, pValue, pPrev>>

\* cleanNum(x), line 92 and 93
CleanValue(x) ==
  /\ calc' = [fn |-> "clean", x |-> x, out |-> cleanNum(x)]
  /\ UNCHANGED <<isProcessing, progress, errorLog, batchResults, wordResult, apiKey, settings, doc,
                 batch, tiers, sortConfig, pTotal, pDone, pValue, pPrev>>

\* calculateVolumeQuality(views, interactions), line 163
ScoreVolume(views, interactions) ==
  /\ calc' = [fn |-> "volume", views |-> views, interactions |-> interactions,
              out |-> calculateVolumeQuality(views, interactions)]
  /\ UNCHANGED <<isProcessing, progress, errorLog, batchResults, wordResult, apiKey, settings, doc,
                 batch, tiers, sortConfig, pTotal, pDone, pValue, pPrev>>

\* setBatchResults(results), line 200, at the end of a batch that had no
\* failure outside the rows
PublishResults(list) ==
  /\ batchResults.null
  /\ batchResults' = Published(list)
  /\ progress' = IF list = <<>> THEN 0 ELSE 100
  /\ UNCHANGED <<isProcessing, errorLog, wordResult, apiKey, batch, aux>>

\* Array.prototype.sort reorders the array it is called on.  Line 237 and
\* line 255 call it on the spread [...batchResults], a new array.
SortTarget_Canonical == "batchResults"
SortTarget == "copy"

\* what batchResults holds after a sort that left its target in this order
ListAfterSort(order) ==
  IF SortTarget = "batchResults"
  THEN Published(Pick(batchResults.list, order))
  ELSE batchResults

\* the callback of the sortedResults memo, line 235 to 251
memoSorted ==
  /\ ~batchResults.null
  /\ \E order \in {sortedOrder} :
       /\ calc' = [fn |-> "sortedResults", out |-> Pick(batchResults.list, order)]
       /\ batchResults' = ListAfterSort(order)
  /\ UNCHANGED <<isProcessing, progress, errorLog, wordResult, apiKey,
                 batch, tiers, sortConfig, settings, doc, pTotal, pDone, pValue, pPrev>>

\* the callback of the top10Results memo, line 253 to 258
memoTop10 ==
  /\ ~batchResults.null
  /\ \E order \in {rankedOrder} :
       /\ calc' = [fn |-> "top10Results", out |-> Pick(batchResults.list, SliceTop(order))]
       /\ batchResults' = ListAfterSort(order)
  /\ UNCHANGED <<isProcessing, progress, errorLog, wordResult, apiKey,
                 batch, tiers, sortConfig, settings, doc, pTotal, pDone, pValue, pPrev>>

\* a click on the header of column key
requestSort(key) ==
  /\ sortConfig' = SortOn(key, NextDirection(sortConfig, key))
  /\ UNCHANGED <<isProcessing, progress, errorLog, batchResults, wordResult, apiKey, settings, doc,
                 batch, tiers, calc, pTotal, pDone, pValue, pPrev>>

\* ---------------------------------------------------------- specifications
InitApp ==
  /\ isProcessing = FALSE
  /\ progress = 0
  /\ errorLog = <<>>
  /\ batchResults = Null
  /\ wordResult = NoWord
  /\ apiKey \in ApiKeys
  /\ batch = [b \in Batches |-> IdleBatch]
  /\ sortConfig = NoSort
  /\ settings = DefaultSettings
  /\ doc = IdleDoc

\* no run of the progress formula, no scoring function under test
NoRun == pTotal = 0 /\ pDone = 0 /\ pValue = 0 /\ pPrev = 0

Init ==
  /\ InitApp /\ apiKey \in {Str(<<"k-123">>), Undef}
  /\ tiers = DefaultTiers /\ NoRun /\ calc = NoCalc

\* the user has put one media name in the first tier
InitSingle == InitApp /\ tiers = DailyTiers /\ NoRun /\ calc = NoCalc

\* uploads may overlap; the user may reset at any time
Next ==
  \/ \E b \in Batches, file \in FewFiles : handleExcelFile(b, file)
  \/ \E b \in Batches : readerOnload(b)
  \/ \E b \in Batches : readerOnerror(b)
  \/ \E b \in Batches : RowResume(b)
  \/ \E b \in Batches, o \in FewOutcomes : AttemptReturn(b, o)
  \/ \E b \in Batches : BackoffDone(b)
  \/ handleReset

Spec == Init /\ [][Next]_vars

\* one upload, every kind of row and of remote outcome
NextSingle ==
  \/ \E file \in AllFiles : handleExcelFile(1, file)
  \/ readerOnload(1)
  \/ readerOnerror(1)
  \/ RowResume(1)
  \/ \E o \in AllOutcomes : AttemptReturn(1, o)
  \/ BackoffDone(1)

SpecSingle == InitSingle /\ [][NextSingle]_vars

\* one upload with what the event loop guarantees: a file that can be read
\* fires onload, a timer fires, and (the proviso of the liveness claims) every
\* remote call settles
NextSingleFair ==
  \/ \E file \in FewFiles : handleExcelFile(1, file)
  \/ readerOnload(1)
  \/ readerOnerror(1)
  \/ RowResume(1)
  \/ \E o \in FewOutcomes : AttemptReturn(1, o)
  \/ BackoffDone(1)

SpecSingleFair ==
  /\ Init /\ [][NextSingleFair]_vars
  /\ WF_vars(readerOnload(1))
  /\ WF_vars(readerOnerror(1))
  /\ WF_vars(RowResume(1))
  /\ WF_vars(\E o \in FewOutcomes : AttemptReturn(1, o))
  /\ WF_vars(BackoffDone(1))

\* one upload of rows that give different records, while the user may change
\* the settings; the second kind of row fails inside the AI call
OrderRows == {RowFull, RowNumBodyTitled, RowUrlOnly}
OrderFiles == {UnreadableFile, BadFile} \cup {Sheet(r) : r \in SeqsUpTo(OrderRows, MaxRows)}
OrderOutcomes == {Rejected("rate", Msg429), OutEmpty, OutJson(GoodResult)}

InitRows ==
  /\ InitApp /\ apiKey \in ApiKeys
  /\ tiers = DailyTiers /\ NoRun /\ calc = NoCalc

NextRows ==
  \/ \E file \in OrderFiles : handleExcelFile(1, file)
  \/ readerOnload(1)
  \/ readerOnerror(1)
  \/ RowResume(1)
  \/ \E o \in OrderOutcomes : AttemptReturn(1, o)
  \/ BackoffDone(1)
  \/ \E s \in SettingsChoices : changeSettings(s)

SpecRows == InitRows /\ [][NextRows]_vars

\* one document upload: every kind of file and text, every remote outcome
DocTexts ==
  {<<>>,
   <<" ", " ", " ", " ", " ", " ", " ", " ", " ", " ", " ", " ">>,
   <<"a", "b", "c", "d", "e", "f", "g", "h", "i">>,
   <<" ", " ", "a", "b", "c", "d", "e", "f", "g", "h", "i", " ", " ">>,
   <<"a", "b", "c", "d", "e", "f", "g", "h", "i", "j">>,
   <<" ", "a", "b", "c", "d", " ", "f", "g", "h", "i", "j", " ">>}
DocFiles == {UnreadableDoc, BadDoc} \cup {Document(text) : text \in DocTexts}
DocOutcomes ==
  {Rejected("rate", Msg429), Rejected("auth", MsgAuth), Rejected("net", <<>>),
   OutEmpty, OutJson(GoodResult), OutJson(JsNull)}

InitWord == InitApp /\ tiers = DefaultTiers /\ NoRun /\ calc = NoCalc

NextWord ==
  \/ \E file \in DocFiles : handleWordFile(file)
  \/ DocBuffered
  \/ DocExtract
  \/ \E o \in DocOutcomes : DocAttemptReturn(o)
  \/ DocBackoffDone

SpecWord == InitWord /\ [][NextWord]_vars

\* the progress formula over every batch size up to MaxTotalRows
InitProgress == InitApp /\ apiKey = Undef /\ pTotal \in 1..MaxTotalRows
  /\ pDone = 0 /\ pValue = 0 /\ pPrev = 0 /\ calc = NoCalc /\ tiers = DefaultTiers

SpecProgress == InitProgress /\ [][ProgressStep]_vars

\* the tier function over the tier lists the three text areas (line 383) can
\* hold and the media names a row can carry
TierTexts ==
  {<<>>,
   <<",", " ", "FWCOMMA">>,
   <<"a", "b">>,
   <<" ", "B", " ", "FWCOMMA", "c">>,
   <<"a", ",", ",", "c", "b">>,
   <<"a", " ", "b">>}
TierNames ==
  {Undef, Str(<<>>), Str(<<" ", " ">>), Str(<<" ", "A", "b", " ">>), Str(<<"b">>),
   Str(<<"c">>), Str(<<"x", "C", "B">>), Str(<<"a", " ", "B", "c">>), Num(<<"7">>)}

InitTier ==
  /\ InitApp /\ apiKey = Undef /\ NoRun /\ calc = NoCalc
  /\ tiers \in [tier1 : TierTexts, tier2 : TierTexts, tier3 : TierTexts]

SpecTier == InitTier /\ [][\E mediaName \in TierNames : ScoreMedia(mediaName)]_vars

\* the volume function over what a views cell can hold (text, a number,
\* nothing) and the interaction counts line 160 can add up to
VolumeTexts ==
  {Str(<<"2", ".", "5", "k">>), Str(<<"1", ",", "2", "3", "4">>), Str(<<"3", "k">>),
   Str(<<"1", "2", "K">>), Str(<<"a", "b", "c">>), Str(<<".">>), Str(<<"1", ".", "2", ".", "3">>),
   Str(<<" ", "9", "0", " ", "p", "v">>), Str(<<"0">>)}
VolumeNumbers ==
  {Num(<<"0">>), Num(<<"5">>), Num(<<"2", ".", "5">>), Num(<<"9", "0">>), Num(<<"9", "9", "0">>),
   Num(<<"9", "9", "9", "9", "0">>), Num(<<"9", "9", "9", "9", "9", "0">>),
   Num(<<"4", "2", "9", "8", "6", "5", "2">>), Num(<<"4", "2", "9", "8", "6", "5", "3">>),
   Num(<<"9", "9", "9", "9", "9", "9", "0">>), Num(<<"9", "9", "9", "9", "9", "9", "9", "0">>)}
VolumeViews == VolumeTexts \cup VolumeNumbers \cup {Undef}
VolumeInteractions ==
  {Num(<<"0">>), Num(<<"1">>), Num(<<"1", "8">>), Num(<<"1", "9", "8">>),
   Num(<<"2", "0", "0", "0", "0", "0", "0">>)}

InitVolume == InitApp /\ apiKey = Undef /\ tiers = DefaultTiers /\ NoRun /\ calc = NoCalc

NextVolume ==
  \/ \E x \in VolumeViews : CleanValue(x)
  \/ \E views \in VolumeViews, interactions \in VolumeInteractions :
       ScoreVolume(views, interactions)

SpecVolume == InitVolume /\ [][NextVolume]_vars

\* the ranking over batches of up to MaxTop rows: row k carries its number in
\* its title and is either an average report or, for up to MaxBest rows, a
\* perfect one
TopRow(k) == [RowFull EXCEPT !.biaoti = Str(<<"r">> \o IntText(k))]
BestRow(k) == [TopRow(k) EXCEPT !.liulanliang = Num(<<"9", "9", "9", "9", "9", "9", "0">>)]
BestResult == AIResult(10, 10, 10, <<"on message">>)
TopRecord(k, best) ==
  IF best THEN MakeRecord(BestRow(k), BestResult) ELSE MakeRecord(TopRow(k), GoodResult)
TopLists ==
  UNION {{[k \in 1..n |-> TopRecord(k, k \in best)] :
            best \in {S \in SUBSET (1..n) : Cardinality(S) <= MaxBest}} : n \in 0..MaxTop}

InitTop == InitApp /\ apiKey = Undef /\ tiers = DailyTiers /\ NoRun /\ calc = NoCalc

\* one batch ends and publishes its list
NextTop == batchResults.null /\ \E list \in TopLists : PublishResults(list)

SpecTop == InitTop /\ [][NextTop]_vars

\* the table over batches of up to MaxTable rows taken from six reports whose
\* media names are Latin, Han and numeric
TableRow(title, media, views) ==
  [EmptyRow EXCEPT !.biaoti = Str(title), !.meitimingcheng = media, !.liulanliang = views]
TableRecords ==
  {MakeRecord(TableRow(<<"r", "1">>, Str(<<"b">>), Num(<<"1", "9", "9", "0">>)), GoodResult),
   MakeRecord(TableRow(<<"R", "2">>, Str(<<"B", "a">>), Num(<<"9", "0">>)),
              AIResult(3, 4, 10, <<"off message">>)),
   MakeRecord(TableRow(<<"x">>, Str(<<"HAN_BEI">>), Num(<<"9", "9", "9", "9", "9", "9", "0">>)),
              BestResult),
   MakeRecord(TableRow(<<"r", "1", "0">>, Str(<<"HAN_AN">>), Num(<<"0">>)), GoodResult),
   MakeRecord(TableRow(<<"a">>, Num(<<"9">>), Num(<<"9", "9", "0">>)), GoodResult),
   MakeRecord(TableRow(<<"A">>, Num(<<"1", "0">>), Num(<<"9", "0">>)), FloorResult)}
TableLists == SeqsUpTo(TableRecords, MaxTable)

\* tier1 holds the pattern b, tier3 the digit 9
TableTiers == [tier1 |-> <<"b">>, tier2 |-> <<>>, tier3 |-> <<"9">>]

InitTable == InitApp /\ apiKey = Undef /\ tiers = TableTiers /\ NoRun /\ calc = NoCalc

NextTable ==
  \/ batchResults.null /\ \E list \in TableLists : PublishResults(list)
  \/ \E key \in SortKeys : requestSort(key)

SpecTable == InitTable /\ [][NextTable]_vars

\* the content resolution of one row over the texts, the URL cells and the
\* network outcomes
FetchContents == {Str(<<>>), Str(<<"body">>), Str(<<"headline">>)}
FetchUrls ==
  {Str(<<>>), Str(<<"http", "://a.example/x">>), Str(<<"http", "s://b.example/">>),
   Str(<<"ftp://c.example">>), Str(<<"www.d.example">>)}
FetchOutcomes ==
  {NetworkError,
   Response(FALSE, TRUE, <<"Not Found">>), Response(FALSE, TRUE, <<>>),
   Response(FALSE, FALSE, <<>>),
   Response(TRUE, FALSE, <<>>),
   Response(TRUE, TRUE, <<>>), Response(TRUE, TRUE, <<"scraped text">>)}

InitFetch == InitApp /\ apiKey = Undef /\ tiers = DefaultTiers /\ NoRun /\ calc = NoCalc

SpecFetch ==
  InitFetch /\ [][\E content \in FetchContents, url \in FetchUrls, o \in FetchOutcomes :
                    ResolveContent(content, url, o)]_vars

\* the two views of the table over published lists of up to MaxViews records
ViewLists == SeqsUpTo(TableRecords, MaxViews)

NextViews ==
  \/ batchResults.null /\ \E list \in ViewLists : PublishResults(list)
  \/ \E key \in SortKeys : requestSort(key)
  \/ memoSorted
  \/ memoTop10

SpecViews == InitTable /\ [][NextViews]_vars

\* the table over media of the first tier that differ in their views: the
\* volumes are 10.00, 9.40 and 6.96
VolumeRecords ==
  {MakeRecord(TableRow(<<"x">>, Str(<<"b">>), Num(<<"9", "9", "9", "9", "9", "9", "0">>)),
              GoodResult),
   MakeRecord(TableRow(<<"r">>, Str(<<"b">>), Num(<<"1", "0", "0", "0", "0", "0", "0">>)),
              GoodResult),
   MakeRecord(TableRow(<<"a">>, Str(<<"b">>), Num(<<"1", "9", "9", "0">>)), FloorResult)}
VolumeLists == SeqsUpTo(VolumeRecords, MaxTable)

NextComposite ==
  \/ batchResults.null /\ \E list \in VolumeLists : PublishResults(list)
  \/ \E key \in SortKeys : requestSort(key)

SpecComposite == InitTable /\ [][NextComposite]_vars

\* overlapping uploads whose rows tell the upload and the row they are
PairRow(b, k) == [RowFull EXCEPT !.biaoti = Str(<<"u">> \o IntText(b) \o <<"r">> \o IntText(k))]
PairFiles(b) == {Sheet([k \in 1..n |-> PairRow(b, k)]) : n \in 0..MaxRows}
PairOutcomes == {Rejected("auth", MsgAuth), OutJson(GoodResult)}

InitOverlap ==
  /\ InitApp /\ apiKey = Str(<<"k-123">>)
  /\ tiers = DailyTiers /\ NoRun /\ calc = NoCalc

NextOverlap ==
  \/ \E b \in Batches : \E file \in PairFiles(b) : handleExcelFile(b, file)
  \/ \E b \in Batches : readerOnload(b)
  \/ \E b \in Batches : RowResume(b)
  \/ \E b \in Batches, o \in PairOutcomes : AttemptReturn(b, o)

SpecOverlap == InitOverlap /\ [][NextOverlap]_vars

\* one upload whose AI calls may also come back with JSON that parses and
\* lacks properties, or with JSON cut short
PartialOutcomes ==
  {Rejected("auth", MsgAuth), OutBadJson(MsgSyntax), OutJson(GoodResult), OutJson(PartialResult)}

NextPartial ==
  \/ \E file \in OrderFiles : handleExcelFile(1, file)
  \/ readerOnload(1)
  \/ readerOnerror(1)
  \/ RowResume(1)
  \/ \E o \in PartialOutcomes : AttemptReturn(1, o)

SpecPartial == InitRows /\ [][NextPartial]_vars

\* ------------------------------------ the prompt, geminiService.ts line 21 to 35
\* ${content.substring(0, 5000)}: what the prompt carries of the content
PromptLimit == 5000

promptContent_Whole(content) == content
promptContent(content) == Substring0(content, PromptLimit)

\* the prompt is built for a content string
BuildPrompt(content) ==
  /\ calc' = [fn |-> "prompt", content |-> content, out |-> promptContent(content)]
  /\ UNCHANGED <<isProcessing, progress, errorLog, batchResults, wordResult, apiKey, settings, doc,
                 batch, tiers, sortConfig, pTotal, pDone, pValue, pPrev>>

\* a text of n characters, each one telling its place
TextOfLength(n) == Str([k \in 1..n |-> DigitChar(k % 10)])

\* the lengths tried: the short texts, and those within MaxNear of the limit
PromptLengths == 0..MaxNear \cup (PromptLimit - MaxNear)..(PromptLimit + MaxNear)

SpecPrompt ==
  InitVolume /\ [][\E n \in PromptLengths : BuildPrompt(TextOfLength(n))]_vars

\* ------------------------------------------------------------------ claims
\* the error an attempt ends with, as the catch block sees it
ErrorMsgOf(o) == IF o.k = "empty" THEN MsgEmpty ELSE o.msg

\* the attempt failed and its message contains 429 or RESOURCE_EXHAUSTED
FailsRateLimited(o) ==
  /\ o.k # "json"
  /\ \/ \E k \in 1..Len(ErrorMsgOf(o)) : ErrorMsgOf(o)[k] = "429"
     \/ \E k \in 1..Len(ErrorMsgOf(o)) : ErrorMsgOf(o)[k] = "RESOURCE_EXHAUSTED"

RECURSIVE SumSeq(_)
SumSeq(s) == IF s = <<>> THEN 0 ELSE s[1] + SumSeq(Tail(s))

ThreeRateLimitsThenSuccess(l) ==
  /\ Len(l.attempts) >= 4
  /\ \A k \in 1..3 : FailsRateLimited(l.attempts[k])
  /\ l.attempts[4].k = "json"

FourRateLimits(l) ==
  /\ Len(l.attempts) >= 4
  /\ \A k \in 1..4 : FailsRateLimited(l.attempts[k])

\* C1: when the first three attempts of a call fail with rate-limit errors and
\* the fourth succeeds, the call returns the fourth attempt's result after
\* exactly 4 remote calls, having waited 2000, 4000 and 8000 ms in that order
\* (at least 14000 ms in all).
C1_RetryThenSuccess ==
  \A b \in Batches :
    ThreeRateLimitsThenSuccess(batch[b]) =>
      /\ batch[b].ret = Returned(batch[b].attempts[4].val)
      /\ batch[b].calls = 4
      /\ Len(batch[b].attempts) = 4
      /\ batch[b].waits = <<2000, 4000, 8000>>
      /\ SumSeq(batch[b].waits) >= 14000

C1_Witness ==
  \E b \in Batches :
    /\ ThreeRateLimitsThenSuccess(batch[b])
    /\ batch[b].ret = Returned(GoodResult)
    /\ batch[b].results # <<>>
    /\ batch[b].results[Len(batch[b].results)].hexinxinxipipei = GoodResult.km_score

\* C2: every attempt that fails with a failure that is not rate limiting (auth
\* error, empty response, JSON parse error) ends the call at once with that
\* error: no backoff is waited and no further remote call is made.
C2_NoRetryOnOtherFailures ==
  \A b \in Batches :
    \A k \in 1..Len(batch[b].attempts) :
      batch[b].attempts[k].cause \in {"auth", "empty", "parse"} =>
        /\ k = Len(batch[b].attempts)
        /\ batch[b].pc \notin {"calling", "backoff"}
        /\ batch[b].ret = Threw(ErrorMsgOf(batch[b].attempts[k]))

\* C3: when four consecutive attempts fail with rate-limit errors the call
\* fails with the error of the fourth attempt after exactly 4 remote calls and
\* 2000 + 4000 + 8000 ms of backoff; a fifth remote call is never made.
C3_RetryExhaustion ==
  \A b \in Batches :
    /\ batch[b].calls <= 4
    /\ FourRateLimits(batch[b]) =>
         /\ batch[b].ret = Threw(ErrorMsgOf(batch[b].attempts[4]))
         /\ batch[b].calls = 4
         /\ Len(batch[b].attempts) = 4
         /\ batch[b].waits = <<2000, 4000, 8000>>
         /\ SumSeq(batch[b].waits) = 14000
         /\ batch[b].pc \notin {"calling", "backoff"}

C3_Witness ==
  \E b \in Batches :
    /\ FourRateLimits(batch[b])
    /\ batch[b].ret.k = "threw"
    /\ batch[b].attempts[4] = Rejected("rate", MsgExhausted)

\* every row whose AI call failed has its record, with the failure marker in
\* the comment, and the loop has gone on past it; a completed batch has one
\* record per row
C4_FailedRowsRecorded ==
  \A b \in Batches :
    /\ \A k \in batch[b].failed :
         /\ k <= Len(batch[b].results)
         /\ Includes(batch[b].results[k].pingjia, "AI_FAIL: ")
         /\ batch[b].i >= k
    /\ batch[b].pc = "done" => Len(batch[b].results) = Len(batch[b].file.rows)

\* the step that completes a batch of at least one row leaves the progress at
\* 100 and publishes the batch's list
C4_CompletionStep ==
  \A b \in Batches :
    (batch[b].pc # "done" /\ batch'[b].pc = "done" /\ Len(batch[b].file.rows) >= 1) =>
      /\ progress' = 100
      /\ batchResults' = Published(batch'[b].results)

\* C4: a batch in which a row's AI call fails is not aborted by it: the failed
\* row is recorded with the failure marker, the rows after it are processed, a
\* completed batch has one record per row and completes with progress 100.
C4_BatchSurvivesRowFailure == [] C4_FailedRowsRecorded /\ [][C4_CompletionStep]_vars

C4_Witness ==
  \E b \in Batches :
    /\ batch[b].pc = "done"
    /\ Len(batch[b].file.rows) = 2
    /\ batch[b].failed = {1}
    /\ batch[b].results[1].hexinxinxipipei = FloorScore
    /\ batch[b].results[2].pingjia = GoodResult.comment
    /\ progress = 100
    /\ batchResults = Published(batch[b].results)

\* a row with no body text, no title, no media name and no fetchable URL
EmptyInput(row) ==
  /\ NoBodyNoTitle(row) /\ NoMedia(row)
  /\ ~(row.URL.t = "str" /\ StartsWithHttp(row.URL.v))

\* C5: for a row whose content and media name are both empty the batch makes
\* no remote AI call and records the floor result (all three sub-scores 1,
\* comment PENDING).
C5_FloorRule ==
  \A b \in Batches :
    /\ batch[b].pc \in {"pacing", "calling", "backoff"} =>
         ~EmptyInput(batch[b].file.rows[batch[b].i + 1])
    /\ \A k \in 1..Len(batch[b].results) :
         EmptyInput(batch[b].file.rows[k]) =>
           batch[b].results[k] = MakeRecord(batch[b].file.rows[k], FloorResult)

\* C6: for a row without body text and title whose URL starts with http the
\* batch fetches the URL before it decides between skipping and scoring.
C6_FetchFallback ==
  \A b \in Batches :
    batch[b].pc \in {"pacing", "calling", "backoff"} =>
      LET row == batch[b].file.rows[batch[b].i + 1]
      IN (NoBodyNoTitle(row) /\ row.URL.t = "str" /\ StartsWithHttp(row.URL.v))
           => (batch[b].i + 1) \in batch[b].fetched

\* C7: the progress set after each row never decreases, is below 100 after
\* every row that is not the last, and is 100 after the last.
C7_ProgressHundredOnlyAtEnd ==
  /\ pPrev <= pValue
  /\ (pDone >= 1 /\ pDone < pTotal) => pValue < 100
  /\ (pDone >= 1 /\ pDone = pTotal) => pValue = 100

\* C8: no two batches are Running at the same time.
C8_NoConcurrentBatches ==
  Cardinality({b \in Batches : Running(batch[b])}) <= 1

\* C9: once a cancellation (a confirmed reset) was raised while a batch was
\* Running, the batch appends at most the row then in flight and never goes
\* on to complete the rows after it.
C9_CooperativeCancellation ==
  \A b \in Batches :
    batch[b].cancelAt >= 0 =>
      /\ Len(batch[b].results) <= batch[b].cancelAt + 1
      /\ batch[b].pc = "done" => Len(batch[b].file.rows) <= batch[b].cancelAt + 1

\* the step in which a batch is aborted (row extraction failed, or a row
\* threw outside the AI call's try) leaves errorLog with the batch-level
\* message, batchResults null and isProcessing false
C10_AbortStep ==
  \A b \in Batches :
    (batch[b].pc # "failed" /\ batch'[b].pc = "failed") =>
      /\ Includes(errorLog', "EXCEL_ERR: ")
      /\ batchResults' = Null
      /\ isProcessing' = FALSE

\* C10: whenever a batch is aborted, at once or after some rows, it ends with
\* errorLog holding the batch-level message, batchResults null (no partial
\* results) and isProcessing false.
C10_BatchAbort == [][C10_AbortStep]_vars

\* C11: every started batch eventually ends Completed or Failed with
\* isProcessing false, provided every remote call settles: no started batch
\* stays Running for ever.
C11_BatchTerminates ==
  (batch[1].pc = "reading") ~> (batch[1].pc \in {"done", "failed"} /\ ~isProcessing)

\* the media name matches a pattern of the tier list: some stretch of the list
\* between two separators (or the ends of the list), trimmed and lowercased,
\* is not empty and occurs in the trimmed lowercased name
MatchesTier(name, list) ==
  /\ name.t # "undef"
  /\ \E i \in 1..Len(list), j \in 1..Len(list) :
       /\ i <= j
       /\ i = 1 \/ IsSeparator(list[i - 1])
       /\ j = Len(list) \/ IsSeparator(list[j + 1])
       /\ \A k \in i..j : ~IsSeparator(list[k])
       /\ LET pattern == ToLowerCase(Trim(SubSeq(list, i, j)))
          IN /\ pattern # <<>>
             /\ StrIncludes(Trim(ToLowerCase(name.v)), pattern)

\* C13: a name that matches a tier1 pattern scores 10 even when it also matches
\* tier2 or tier3 patterns; a name that matches a tier2 pattern and no tier1
\* pattern scores 8 even when it also matches a tier3 pattern.
C13_TierPrecedence ==
  calc.fn = "tier" =>
    /\ MatchesTier(calc.name, tiers.tier1) => calc.out = 10
    /\ (MatchesTier(calc.name, tiers.tier2) /\ ~MatchesTier(calc.name, tiers.tier1))
         => calc.out = 8

\* tier1 wins over tier3, and tier2 wins over tier3, on a name both match
C13_Witness ==
  /\ calc.fn = "tier"
  /\ MatchesTier(calc.name, tiers.tier3)
  /\ \/ MatchesTier(calc.name, tiers.tier1) /\ calc.out = 10
     \/ ~MatchesTier(calc.name, tiers.tier1) /\ MatchesTier(calc.name, tiers.tier2)
          /\ calc.out = 8 /\ tiers.tier1 # <<>>

\* the list holds nothing but separators and blanks
OnlySeparators(list) == \A k \in 1..Len(list) : IsSeparator(list[k]) \/ IsSpace(list[k])

\* C14: the score is 10, 8, 5 or 3: the score of the first tier, in the order
\* tier1, tier2, tier3, that holds a pattern the name contains, and 3 when the
\* name is empty or missing or no tier holds one; a list that is empty or holds
\* only separators and blanks matches no name.
C14_TierMatching ==
  calc.fn = "tier" =>
    /\ calc.out \in {10, 8, 5, 3}
    /\ calc.out = 10 <=> MatchesTier(calc.name, tiers.tier1)
    /\ calc.out = 5 =>
         /\ MatchesTier(calc.name, tiers.tier3)
         /\ ~MatchesTier(calc.name, tiers.tier2)
    /\ calc.out = 8 => MatchesTier(calc.name, tiers.tier2)
    /\ (\A t \in {tiers.tier1, tiers.tier2, tiers.tier3} : ~MatchesTier(calc.name, t))
         => calc.out = 3
    /\ ~Truthy(calc.name) => calc.out = 3
    /\ OnlySeparators(tiers.tier1) => calc.out # 10
    /\ OnlySeparators(tiers.tier2) => calc.out # 8
    /\ OnlySeparators(tiers.tier3) => calc.out # 5

\* a name with capitals and blanks around it scored 3 although tier1 is a list
\* of separators only, and scored by tier3 through a pattern written in capitals
C14_Witness ==
  /\ calc.fn = "tier"
  /\ calc.name = Str(<<" ", "A", "b", " ">>)
  /\ tiers.tier1 = <<",", " ", "FWCOMMA">>
  /\ tiers.tier2 = <<>>
  /\ tiers.tier3 = <<" ", "B", " ", "FWCOMMA", "c">>
  /\ calc.out = 5

\* the text holds no digit at all
Unparsable(x) == x.t = "str" /\ \A k \in 1..Len(x.v) : ~IsDigit(x.v[k])

\* C15: the text '2.5k' is read as 2500 and '1,234' as 1234 (a k or K suffix
\* multiplies by 1000, every other character that is neither a digit nor a dot
\* is dropped), and a text that cannot be parsed is read as 0.
C15_VolumeCoercion ==
  calc.fn = "clean" =>
    /\ calc.x = Str(<<"2", ".", "5", "k">>) => calc.out = Dec(2500, 0)
    /\ calc.x = Str(<<"3", "k">>) => calc.out = Dec(3000, 0)
    /\ calc.x = Str(<<"1", "2", "K">>) => calc.out = Dec(12000, 0)
    /\ calc.x = Str(<<"1", ",", "2", "3", "4">>) => calc.out = Dec(1234, 0)
    /\ Unparsable(calc.x) => calc.out = Dec(0, 0)

PowerOfTen == [k \in 1..8 |-> IF k = 1 THEN 10 ELSE IF k = 2 THEN 100 ELSE IF k = 3 THEN 1000
                 ELSE IF k = 4 THEN 10000 ELSE IF k = 5 THEN 100000
                 ELSE IF k = 6 THEN 1000000 ELSE IF k = 7 THEN 10000000 ELSE 100000000]

\* C16: for non-negative views and interactions the volume quality is
\* min(10, round10(log10(views + 5 * interactions + 10) * 1.5)): it lies in
\* [0, 10], is 1.5 * k capped at 10 where views + 5 * interactions + 10 is
\* 10 ^ k, and does not decrease when views or interactions grow.
C16_VolumeRangeMonotone ==
  calc.fn = "volume" =>
    LET v == cleanNum(calc.views)
        i == cleanNum(calc.interactions)
    IN /\ calc.out \in 0..100
       /\ \A k \in 1..8 :
            (v.f = 0 /\ i.f = 0 /\ v.w + 5 * i.w + 10 = PowerOfTen[k])
              => calc.out = Min(100, 15 * k)
       /\ \A views \in VolumeViews :
            DecLeq(v, cleanNum(views))
              => calc.out <= calculateVolumeQuality(views, calc.interactions)
       /\ \A interactions \in VolumeInteractions :
            DecLeq(i, cleanNum(interactions))
              => calc.out <= calculateVolumeQuality(calc.views, interactions)

\* ten million views: log10 gives 7, times 1.5 is 10.5, published as 10
C16_Witness ==
  /\ calc.fn = "volume"
  /\ calc.views = Num(<<"9", "9", "9", "9", "9", "9", "0">>)
  /\ calc.interactions = Num(<<"0">>)
  /\ calc.out = 100

\* the hundredths a published score text d.dd stands for
CentsOf(text) == The({100 * d.w + d.f \div 100 : d \in {parseFloat(text.v)}})

\* the text is the exact value x (in ten-thousandths) rounded to 2 decimals
RoundsTo(text, x) ==
  /\ Len(text.v) >= 4 /\ text.v[Len(text.v) - 2] = "."
  /\ \E cents \in {CentsOf(text)} : 100 * cents - 50 <= x /\ x < 100 * cents + 50

\* C12: every record publishes, rounded to 2 decimals,
\* volume_total = 0.6 * volume_quality + 0.4 * tier_score,
\* true_demand = 0.6 * km + 0.4 * audience and
\* total = 0.5 * true_demand + 0.2 * acquisition + 0.3 * volume_total;
\* km 8, acquisition 6, audience 7, volume quality 5 and tier 10 show
\* 7.00, 7.60 and 7.10.
C12_ScoreComposition ==
  \A k \in 1..Len(batch[1].results) :
    LET rec == batch[1].results[k]
        \* the three values times 10000; chuanbozhiliang is in tenths
        volume_total == 600 * rec.chuanbozhiliang + 4000 * rec.meitifenji
        true_demand == 6000 * rec.hexinxinxipipei + 4000 * rec.shouzhongjingzhundu
        \* times 100000
        total == 5 * true_demand + 20000 * rec.huokexiaoneng + 3 * volume_total
    IN /\ RoundsTo(rec.shengliang, volume_total)
       /\ RoundsTo(rec.zhenxuqiu, true_demand)
       /\ \E cents \in {CentsOf(rec.xiangmuzongfen)} :
            1000 * cents - 500 <= total /\ total < 1000 * cents + 500
       /\ (/\ rec.hexinxinxipipei = 8 /\ rec.huokexiaoneng = 6
           /\ rec.shouzhongjingzhundu = 7
           /\ rec.chuanbozhiliang = 50 /\ rec.meitifenji = 10)
            => /\ rec.shengliang = Str(<<"7", ".", "0", "0">>)
               /\ rec.zhenxuqiu = Str(<<"7", ".", "6", "0">>)
               /\ rec.xiangmuzongfen = Str(<<"7", ".", "1", "0">>)

\* the published list holds the record of the example
C12_Witness ==
  /\ ~batchResults.null
  /\ \E k \in 1..Len(batchResults.list) :
       LET rec == batchResults.list[k]
       IN /\ rec.hexinxinxipipei = 8 /\ rec.huokexiaoneng = 6
          /\ rec.shouzhongjingzhundu = 7
          /\ rec.chuanbozhiliang = 50 /\ rec.meitifenji = 10
          /\ rec.xiangmuzongfen = Str(<<"7", ".", "1", "0">>)

TotalOf(rec) == Scaled(parseFloat(rec.xiangmuzongfen.v))

\* C17: top10Results holds min(10, N) records of the published list, by total
\* score descending; records with equal totals keep their input order, also
\* where the list is cut.
C17_TopTenStable ==
  ~batchResults.null =>
    \A view \in {Render} :
      LET list == batchResults.list
          N == Len(list)
          top == view.top10Order
      IN \A total \in {[i \in 1..N |-> TotalOf(list[i])]} :
           /\ Len(view.top10Results) = Min(10, N)
           /\ \A p \in 1..Len(top) : top[p] \in 1..N /\ view.top10Results[p] = list[top[p]]
           /\ \A p, q \in 1..Len(top) :
                p < q => \/ total[top[p]] > total[top[q]]
                         \/ total[top[p]] = total[top[q]] /\ top[p] < top[q]
           /\ \A i \in 1..N :
                (\A p \in 1..Len(top) : top[p] # i)
                  => \A p \in 1..Len(top) :
                       \/ total[i] < total[top[p]]
                       \/ total[i] = total[top[p]] /\ top[p] < i

\* eleven rows, the perfect one last: it is ranked first, the rows that tie
\* follow in input order and the tenth of them is cut
C17_Witness ==
  /\ ~batchResults.null
  /\ Len(batchResults.list) = 11
  /\ top10Order = <<11, 1, 2, 3, 4, 5, 6, 7, 8, 9>>
  /\ top10Results[1].xiangmuzongfen = Str(<<"1", "0", ".", "0", "0">>)
  /\ top10Results[2].xiangmuzongfen = Str(<<"7", ".", "1", "0">>)

\* C18: a requestSort on the key that is the sort key flips the direction,
\* desc to asc and asc to desc; a requestSort on another key, or when no sort
\* is set, sets the direction desc.
C18_ToggleStep ==
  sortConfig' # sortConfig =>
    /\ sortConfig'.set
    /\ sortConfig'.direction \in {"asc", "desc"}
    /\ (sortConfig.set /\ sortConfig'.key = sortConfig.key)
         => sortConfig'.direction # sortConfig.direction
    /\ (~sortConfig.set \/ sortConfig'.key # sortConfig.key)
         => sortConfig'.direction = "desc"
C18_SortToggle == [][C18_ToggleStep]_vars

\* a column clicked twice sorts ascending
C18_Witness == sortConfig.set /\ sortConfig.direction = "asc"

\* text s does not come after text t in the zh-CN order: at the first place
\* where their characters differ in rank s ends or has the lower rank; with
\* equal ranks throughout the same holds of small before capital
ComesFirst(s, t, rank) ==
  \E k \in 1..(Len(s) + 1) :
    /\ \A j \in 1..(k - 1) : j <= Len(t) /\ rank[s[j]] = rank[t[j]]
    /\ \/ k = Len(s) + 1 /\ Len(t) >= k
       \/ k <= Len(s) /\ k <= Len(t) /\ rank[s[k]] < rank[t[k]]
SameRanks(s, t, rank) ==
  Len(s) = Len(t) /\ \A j \in 1..Len(s) : rank[s[j]] = rank[t[j]]
NotAfter(s, t) ==
  LET letter == [ch \in CharsOf(s, t) |-> CollationRank(ch)]
      case == [ch \in CharsOf(s, t) |-> CaseRank(ch)]
  IN \/ ComesFirst(s, t, letter)
     \/ SameRanks(s, t, letter) /\ (ComesFirst(s, t, case) \/ SameRanks(s, t, case))

\* C20: under a sort, sortedResults is the published list rearranged so that
\* two rows whose values under the key are both numbers are in numeric order
\* in the direction asked, and any other two rows are in zh-CN string order in
\* the direction asked; the score fields are numbers in every record.
C20_SortComparison ==
  (~batchResults.null /\ sortConfig.set) =>
    \A order \in {sortedOrder} :
      LET list == batchResults.list
          key == sortConfig.key
          asc == sortConfig.direction = "asc"
      IN /\ Len(order) = Len(list)
         /\ \A i \in 1..Len(list) : \E p \in 1..Len(order) : order[p] = i
         /\ sortedResults.list = [p \in 1..Len(order) |-> list[order[p]]]
         /\ \A p, q \in 1..Len(order) :
              p < q =>
                LET first == IF asc THEN list[order[p]] ELSE list[order[q]]
                    second == IF asc THEN list[order[q]] ELSE list[order[p]]
                IN /\ key \in ScoreKeys => first[key] <= second[key]
                   /\ (key \notin ScoreKeys /\ first[key].t = "num" /\ second[key].t = "num")
                        => Scaled(parseFloat(first[key].v)) <= Scaled(parseFloat(second[key].v))
                   /\ (key \notin ScoreKeys /\ (first[key].t # "num" \/ second[key].t # "num"))
                        => NotAfter(first[key].v, second[key].v)

\* three media names, Latin and Han, sorted ascending: b, then an, then bei
C20_Witness ==
  /\ ~batchResults.null /\ sortConfig = SortOn("meitimingcheng", "asc")
  /\ Len(batchResults.list) = 3
  /\ batchResults.list[1].meitimingcheng = Str(<<"HAN_BEI">>)
  /\ batchResults.list[2].meitimingcheng = Str(<<"HAN_AN">>)
  /\ batchResults.list[3].meitimingcheng = Str(<<"b">>)
  /\ sortedOrder = <<3, 2, 1>>

\* C19: for a completed batch with zero rows the rubric averages (summary
\* metrics and radar data) are not computed by a division by zero: the outcome
\* is "no data", and no average is ever NaN.
C19_EmptySetGuard ==
  /\ (~batchResults.null /\ batchResults.list = <<>>)
       => ~summaryMetrics.shown /\ ~radarData.shown
  /\ summaryMetrics.shown
       => \A key \in MetricKeys : summaryMetrics.values[key] # <<"NaN">>
  /\ radarData.shown => \A key \in RadarKeys : ~radarData.values[key].nan

\* the document's raw text was extracted and is too short
Insufficient ==
  /\ doc.pc \notin {"idle", "buffering", "extracting"}
  /\ doc.file.docx
  /\ Len(Trim(doc.file.text)) < 10

\* C21: when the text extracted from the document has fewer than 10 characters
\* after trimming, no AI call is made, wordResult stays null, errorLog holds
\* the insufficient-content message and isProcessing is false again.
C21_DocumentRejection ==
  Insufficient =>
    /\ doc.pc = "failed"
    /\ doc.calls = 0 /\ doc.attempts = <<>>
    /\ wordResult = NoWord
    /\ errorLog = MsgTooShort
    /\ ~isProcessing

\* nine characters between blanks were rejected
C21_Witness ==
  /\ Insufficient
  /\ Len(doc.file.text) > 10
  /\ Len(Trim(doc.file.text)) = 9
  /\ errorLog = MsgTooShort

\* C22: a batch is aborted only by a failure of the row extraction; a failure
\* that arises while a row is processed, whatever its cells hold, is kept in
\* that row's comment and the rows after it are processed.
C22_RowFailureContained ==
  \A b \in Batches :
    batch[b].pc = "failed" =>
      /\ ~batch[b].file.ok
      /\ batch[b].i = 0 /\ batch[b].results = <<>>

\* the published list or the error log tells of a failure
SomeTrace ==
  \/ errorLog # <<>>
  \/ /\ ~batchResults.null
     /\ \E k \in 1..Len(batchResults.list) :
          Includes(batchResults.list[k].pingjia, "AI_FAIL: ")

\* C23: once the reading of the uploaded file has failed, or the batch has
\* ended after an AI call of it failed, a record's comment or the error log
\* tells of the failure.
C23_NoSilentFailure ==
  \A b \in Batches :
    /\ batch[b].pc = "unread" => SomeTrace
    /\ (batch[b].pc \in {"done", "failed"} /\ batch[b].failed # {}) => SomeTrace

\* the record is the one line 185 to 197 builds from the row and the AI
\* scores and comment the record shows
BuiltFrom(record, row) ==
  record = MakeRecord(row, AIResult(record.hexinxinxipipei, record.huokexiaoneng,
                                    record.shouzhongjingzhundu, record.pingjia))

\* C24: record k of a batch is built from input row k, and a completed batch
\* of N rows has published exactly N records in the order of the rows,
\* whichever rows had a failed AI call.
C24_OneRecordPerRow ==
  /\ \A k \in 1..Len(batch[1].results) :
       BuiltFrom(batch[1].results[k], batch[1].file.rows[k])
  /\ batch[1].pc = "done" =>
       /\ Len(batch[1].results) = Len(batch[1].file.rows)
       /\ batchResults = Published(batch[1].results)

\* two different rows, the first with a failed AI call
C24_Witness ==
  /\ batch[1].pc = "done"
  /\ batch[1].file.rows = <<RowUrlOnly, RowFull>>
  /\ batch[1].failed = {1}
  /\ batchResults.list[1].biaoti = Str(<<"NO_TITLE">>)
  /\ batchResults.list[2].biaoti = Str(<<"headline">>)

\* the upload step keeps the settings then in force
C25_StartStep ==
  (batch[1].pc = "idle" /\ batch'[1].pc = "reading") => batch'[1].config = settings

\* every AI call so far was given the settings kept at the upload
C25_SameSettings == batch[1].sent \subseteq {batch[1].config}

\* C25: every AI call of a batch is given the audienceMode, projectKeyMessage
\* and projectDesc in force when the batch started, also when the user changes
\* them while the batch runs.
C25_ConfigurationFixed == [] C25_SameSettings /\ [][C25_StartStep]_vars

\* two rows were scored after the user had changed the settings
C25_Witness ==
  /\ batch[1].pc = "done"
  /\ Len(batch[1].results) = 2
  /\ batch[1].failed = {}
  /\ batch[1].sent = {DefaultSettings}
  /\ settings = Settings("HCP", <<"screening">>, <<>>)

\* the remote calls of the current analyzeWithGemini that have not settled
InFlight(l) == l.calls - Len(l.attempts)

\* C26: row i+1 is in processing (fetch, pacing, AI call, backoff) only when
\* the records of rows 1..i are appended; at most one remote AI call of the
\* batch is in flight, and none during a pacing or backoff wait.
C26_SequentialRows ==
  /\ batch[1].pc \in {"fetching", "pacing", "calling", "backoff"} =>
       /\ Len(batch[1].results) = batch[1].i
       /\ batch[1].i < Len(batch[1].file.rows)
  /\ InFlight(batch[1]) = (IF batch[1].pc = "calling" THEN 1 ELSE 0)

\* the second row waits in its backoff after a rate-limited attempt
C26_Witness ==
  /\ batch[1].pc = "backoff"
  /\ batch[1].i = 1 /\ Len(batch[1].results) = 1
  /\ batch[1].calls = 1 /\ Len(batch[1].attempts) = 1

\* C27: a delay of 800 ms precedes the AI call of every row but the first,
\* once per row and not again for a retry: during the call of row i+1 the batch
\* has paced i times, and a completed batch of N rows N-1 times.
C27_InterCallPacing ==
  /\ \A k \in 1..Len(batch[1].paced) : batch[1].paced[k] = 800
  /\ batch[1].pc \in {"calling", "backoff"} => Len(batch[1].paced) = batch[1].i
  /\ batch[1].pc = "pacing" => Len(batch[1].paced) = batch[1].i - 1
  /\ (batch[1].pc = "done" /\ batch[1].file.rows # <<>>) =>
       Len(batch[1].paced) = Len(batch[1].file.rows) - 1

\* two rows, the second after three retries: one pacing delay
C27_Witness ==
  /\ batch[1].pc = "done"
  /\ Len(batch[1].file.rows) = 2
  /\ batch[1].waits = <<2000, 4000, 8000>>
  /\ batch[1].paced = <<800>>

\* C30: an attempt that comes back without text ends the call with the
\* empty-response error and is not retried; the row is recorded with the
\* failure comment and the batch goes on to the next row or completes.
C30_EmptyResponse ==
  \A k \in 1..Len(batch[1].attempts) :
    batch[1].attempts[k].k = "empty" =>
      /\ k = Len(batch[1].attempts)
      /\ batch[1].ret = Threw(MsgEmpty)
      /\ batch[1].pc \in {"pacing", "done"}
      /\ batch[1].i \in batch[1].failed
      /\ batch[1].results[batch[1].i].pingjia = <<"AI_FAIL: ", "AI_EMPTY">>
      /\ batch[1].results[batch[1].i].hexinxinxipipei = 1

\* the empty response of the first row is recorded and the second row waits
\* for its call
C30_Witness ==
  /\ batch[1].pc = "pacing"
  /\ batch[1].attempts = <<OutEmpty>>
  /\ batch[1].calls = 1
  /\ batch[1].results[1].pingjia = <<"AI_FAIL: ", "AI_EMPTY">>

\* a published list is never changed by a step
C28_ListKept == ~batchResults.null => batchResults' = batchResults

\* what the sortedResults memo gave with no sort selected is the list itself
C28_ProcessingOrder ==
  (calc.fn = "sortedResults" /\ ~sortConfig.set) => calc.out = batchResults.list

\* C28: computing sortedResults, for every key and direction, and computing
\* top10Results leave batchResults as it was, the same records in the same
\* order; with no sort selected sortedResults is in processing order.
C28_ViewsDoNotMutate == [][C28_ListKept]_vars /\ [] C28_ProcessingOrder

\* a sort that reordered the records was computed
C28_Witness ==
  /\ calc.fn = "sortedResults"
  /\ sortConfig.set
  /\ Len(calc.out) = 2
  /\ calc.out # batchResults.list
  /\ calc.out[1] = batchResults.list[2]

\* the request rejected, the status was not a success, or the body could not
\* be read
FetchFailed(o) == o.k = "reject" \/ ~o.ok \/ ~o.readable

\* C29: the content fetch of a row is one request, never repeated; when it
\* fails nothing is raised, the row keeps the text it had and goes on to the
\* decision between skipping and scoring.
C29_FetchFailureNonFatal ==
  calc.fn = "resolve" =>
    /\ calc.out.requests <= 1
    /\ (calc.out.requests = 1 /\ FetchFailed(calc.outcome)) =>
         /\ calc.out.next = "line 175"
         /\ calc.out.content = calc.content

\* a request was made and rejected
C29_Witness ==
  /\ calc.fn = "resolve"
  /\ calc.outcome = NetworkError
  /\ calc.out.requests = 1
  /\ calc.out.content = Str(<<>>)
\* C31: the text submitted to the remote AI call is the first min(length, 5000)
\* characters of the content: content of up to 5000 characters goes unchanged,
\* longer content is clipped to exactly its first 5000 characters.
C31_InputTruncation ==
  calc.fn = "prompt" =>
    \E n \in {Len(calc.content.v)} :
      /\ Len(calc.out.v) = Min(n, PromptLimit)
      /\ \A k \in 1..Min(n, PromptLimit) : calc.out.v[k] = calc.content.v[k]
      /\ n <= PromptLimit => calc.out = calc.content

\* a content string longer than the limit has been clipped
C31_Witness ==
  /\ calc.fn = "prompt"
  /\ Len(calc.content.v) > PromptLimit
  /\ Len(calc.out.v) = PromptLimit

\* the columns that hold a composite formatted with toFixed(2), line 188 to 190
CompositeKeys == {"shengliang", "xiangmuzongfen", "zhenxuqiu"}

\* C32: an interactive sort by a formatted composite column orders the rows
\* by the numeric value of the composite: non-increasing when descending (10.00
\* before 9.40), non-decreasing when ascending.
C32_CompositeSortNumeric ==
  (~batchResults.null /\ sortConfig.set /\ sortConfig.key \in CompositeKeys) =>
    \A sorted \in {sortedResults.list} :
      \A p, q \in 1..Len(sorted) :
        p < q =>
          IF sortConfig.direction = "asc"
          THEN NumberUnder(sorted[p], sortConfig.key) <= NumberUnder(sorted[q], sortConfig.key)
          ELSE NumberUnder(sorted[p], sortConfig.key) >= NumberUnder(sorted[q], sortConfig.key)

\* every upload started so far was running when a reset was confirmed: the
\* last reset came after the last upload
ResetSinceLastUpload ==
  /\ \E b \in Batches : batch[b].pc # "idle"
  /\ \A b \in Batches : batch[b].pc # "idle" => batch[b].cancelAt >= 0

\* C33: after a confirmed handleReset, wordResult and batchResults are null,
\* progress is 0 and errorLog is empty until the user starts a new upload; a
\* batch that was running when the reset was confirmed publishes neither
\* results nor progress afterwards.
C33_ResetDurable ==
  ResetSinceLastUpload =>
    /\ wordResult = NoWord
    /\ batchResults = Null
    /\ progress = 0
    /\ errorLog = <<>>

\* C34: isProcessing is true in every state in which a batch is in flight;
\* under any overlap of two batches it is never false while one of them is
\* still running.
C34_ProcessingTracksWork ==
  (\E b \in Batches : Running(batch[b])) => isProcessing

\* C35: under any interleaving of overlapping batch runs, a non-null
\* batchResults holds the records of exactly one upload, one per row of that
\* upload and in the order of its rows; records of two uploads are never mixed
\* in one published list.
C35_OneUploadPublished ==
  ~batchResults.null =>
    \E b \in Batches :
      /\ batch[b].pc = "done"
      /\ batchResults.list = batch[b].results
      /\ Len(batchResults.list) = Len(batch[b].file.rows)
      /\ \A k \in 1..Len(batchResults.list) :
           batchResults.list[k].biaoti = titleOf(batch[b].file.rows[k])

\* the first upload has published its two records while the second, started
\* during the first, has a record of its own and a call in flight
C35_Witness ==
  /\ batch[1].pc = "done" /\ batch[2].pc = "calling"
  /\ Len(batch[2].results) >= 1
  /\ ~batchResults.null /\ Len(batchResults.list) = 2
  /\ batchResults.list[1].biaoti = Str(<<"u", "1", "r", "1">>)

\* the last AI call of the upload returned an object that lacks properties,
\* and the row's record is the last one pushed
PartialReturned(l) ==
  /\ l.ret.k = "returned" /\ ~l.ret.val.isNull /\ l.ret.val.missing # {}
  /\ Len(l.results) >= 1 /\ Len(l.results) = l.i

\* C36: a row whose AI call fails is recorded with km = acq = aud = 1, 真需求
\* 1.00 and 项目总分 0.7 + 0.3 * volume total; no sub-score taken from a failed
\* or partial AI response is ever recorded; 媒体分级 and 传播质量 are what the
\* row gives them whatever the call did.
C36_FloorOnFailure ==
  /\ \A k \in 1..Len(batch[1].results) :
       \E rec \in {batch[1].results[k]}, row \in {batch[1].file.rows[k]} :
         /\ rec.meitifenji = getMediaTierScore(mediaNameOf(row))
         /\ rec.chuanbozhiliang = volQualityOf(row)
         /\ k \in batch[1].failed =>
              /\ rec.hexinxinxipipei = FloorScore
              /\ rec.huokexiaoneng = FloorScore
              /\ rec.shouzhongjingzhundu = FloorScore
              /\ rec.zhenxuqiu = Str(<<"1", ".", "0", "0">>)
              /\ rec.xiangmuzongfen =
                   Str(toFixed2(7000 + (3 * Scaled(parseFloat(rec.shengliang.v))) \div 10))
  /\ PartialReturned(batch[1]) =>
       batch[1].results[batch[1].i].hexinxinxipipei = FloorScore

InLoop(l) == l.pc \in {"calling", "backoff"}

\* what is left of the loop: two steps for each retry left, one more while a
\* remote call is in flight
LoopMeasure(l) == 2 * l.retries + (IF l.pc = "calling" THEN 1 ELSE 0)

\* in every state the call has made at most 4 remote calls; it has ended with
\* the value parsed from its last attempt or with the error of its last
\* attempt, never with the error that follows the loop
C38_LoopState ==
  /\ batch[1].calls <= InitialRetries + 1
  /\ Len(batch[1].attempts) <= batch[1].calls
  /\ InLoop(batch[1]) => batch[1].retries >= 0 /\ batch[1].ret.k = "none"
  /\ batch[1].ret.msg # MsgSpent
  /\ ~Includes(errorLog, "RETRIES_SPENT")
  /\ (batch[1].ret.k = "threw" /\ batch[1].attempts # <<>>) =>
       batch[1].ret.msg = ErrorMsgOf(batch[1].attempts[Len(batch[1].attempts)])
  /\ batch[1].ret.k = "returned" =>
       /\ batch[1].attempts # <<>>
       /\ batch[1].attempts[Len(batch[1].attempts)] = OutJson(batch[1].ret.val)

\* a step taken inside the loop (a remote call that returns, a backoff timer
\* that fires) leaves the loop or brings it nearer to its end
C38_LoopStep ==
  (InLoop(batch[1]) /\ batch'[1] # batch[1]) =>
    \/ ~InLoop(batch'[1])
    \/ LoopMeasure(batch'[1]) < LoopMeasure(batch[1])

\* C38: for every sequence of attempt outcomes, provided each remote call
\* returns, the retry loop ends after at most 4 remote calls with a returned
\* result or the rethrown error of an attempt; the trailing error after the
\* loop is never raised.
C38_RetryLoopTerminates == []C38_LoopState /\ [][C38_LoopStep]_vars

\* three rate-limited attempts, then a fourth remote call that succeeds
C38_Witness ==
  /\ Len(batch[1].attempts) = 4 /\ batch[1].calls = 4
  /\ batch[1].waits = <<2000, 4000, 8000>>
  /\ batch[1].ret = Returned(GoodResult)
  /\ batch[1].retries = 0

====
